---- MODULE Spec2Model ----
(***************************************************************************)
(* State-machine model of the subscription manager bot (src/main.py).     *)
(*                                                                         *)
(* The persisted snapshot (data.json) is the variable `data`.  Every       *)
(* handler of the bot is one action: python-telegram-bot processes one     *)
(* update at a time, so a handler's load_data .. save_data runs without    *)
(* interleaving.  Each user has one state per ConversationHandler (`conv`),*)
(* one user_data dictionary shared by all of that user's conversations,    *)
(* and the inline keyboards currently on screen (`menu`).  `last` records  *)
(* which handler ran last, for whom, with which input and which branch.    *)
(***************************************************************************)
EXTENDS Integers, Sequences, FiniteSets, Bags, TLC

(* ------------------------------------------------------------------ *)
(* Input alphabets and bounds                                           *)
(* ------------------------------------------------------------------ *)
Users == {"u1", "u2"}
PersonTexts == {"ann", "bob"}
AccountTexts == {"acc1"}
ServiceTexts == {"Stream"}
EmojiTexts == {"E"}
DurationTexts == {"30", "0", "abc"}
PriceTexts == {"9.99", "12.99", "-1", "-0.001", "abc"}
SlotArgs == {"1", "2"}
CountArgs == {"2", "0", "x"}

\* longest subscription list a person may get in the model
MaxSubs == 2
\* ticks in a day: the clock's resolution within a day
TicksPerDay == 2
\* the days the clock jumps to: a subscription of day 0 has just expired on
\* the first and is long expired on the second
SoonAfter == 31
LongAfter == 93
ClockDays == {SoonAfter, LongAfter}
\* the day on which the process of SpecSweep starts
SweepDay == 72
\* an end_date or last_active text that strptime rejects
BadDate == -1
\* conversations one user holds open at a time
MaxOpen == 1
\* conversations one user enters in a run
MaxFlows == 2
\* conversations the user of SpecSession holds open at a time
MaxPending == 2

(* ------------------------------------------------------------------ *)
(* Dictionaries (python dict / JSON object) as functions                *)
(* ------------------------------------------------------------------ *)
Null == "null"
EmptyDict == [x \in {} |-> Null]
Put(d, k, v) == [x \in (DOMAIN d) \cup {k} |-> IF x = k THEN v ELSE d[x]]
Del(d, k) == [x \in (DOMAIN d) \ {k} |-> d[x]]
Get(d, k, dflt) == IF k \in DOMAIN d THEN d[k] ELSE dflt
\* python list.pop(i)
Pop(s, i) == [j \in 1..(Len(s) - 1) |-> IF j < i THEN s[j] ELSE s[j + 1]]

(* ------------------------------------------------------------------ *)
(* Conversions                                                          *)
(* ------------------------------------------------------------------ *)
\* str.isdigit()
IsDigit(t) == t \in {"30", "0", "1", "2", "7", "07"}
\* int(t) for the texts that parse as integers ("x", "abc" raise ValueError)
IsIntText(t) == t \in {"30", "0", "1", "2", "7", "07", "-1"}
IntOf(t) ==
  CASE t = "30" -> 30
    [] t = "0" -> 0
    [] t = "1" -> 1
    [] t = "2" -> 2
    [] t \in {"7", "07"} -> 7
    [] t = "-1" -> -1
\* str(n)
StrOf(n) ==
  CASE n = 30 -> "30"
    [] n = 0 -> "0"
    [] n = 1 -> "1"
    [] n = 2 -> "2"
    [] n = 7 -> "7"
    [] n = -1 -> "-1"
\* float(t) succeeds
IsFloatText(t) == t \in {"9.99", "12.99", "-1", "-0.001", "30", "0", "1", "2", "7", "07"}
\* round(float(t), 2), in cents
CentsOf(t) ==
  CASE t = "9.99" -> 999
    [] t = "12.99" -> 1299
    [] t \in {"-1", "30", "0", "1", "2", "7", "07"} -> 100 * IntOf(t)
    [] t = "-0.001" -> 0   \* rounds to -0.0, which is not below 0
\* the price recorded when the catalog has none: the string "N/A"
NoPrice == -1

\* datetime.utcnow() is `now`, counted in ticks of a day; strftime("%Y-%m-%d")
\* keeps the day, strptime gives that day's midnight, timedelta.days floors.
StrfDate(t) == t \div TicksPerDay
IsDateText(d) == d >= 0
StrpDate(d) == d * TicksPerDay
DaysBetween(t, t0) == (t - t0) \div TicksPerDay

(* ------------------------------------------------------------------ *)
(* State                                                                *)
(* ------------------------------------------------------------------ *)
VARIABLES
  data,       \* the snapshot in data.json: people, accounts, services, default_slots
  conv,       \* conv[u][c]: state of user u in ConversationHandler c
  user_data,  \* user_data[u]: context.user_data of user u
  menu,       \* menu[u]: the bag of inline keyboards on screen in u's chat, one per message, besides the main menu
  now,        \* the clock (datetime.utcnow()), in ticks
  entered,    \* entered[u]: how many conversations user u has entered so far
  last        \* the handler that ran last: user, handler, input, branch taken

vars == <<data, conv, user_data, menu, now, entered, last>>

\* The ConversationHandlers in the order main() adds them to the application.
Convs == <<"add_person_conv", "remove_person_conv", "add_account_conv",
           "remove_account_conv", "add_sub_conv", "set_price_conv", "remove_sub_conv">>
ConvSet == {Convs[i] : i \in 1..Len(Convs)}
\* a user without a key in the handler's conversation table
Idle == "IDLE"

EmptyData == [people |-> EmptyDict, accounts |-> EmptyDict,
              services |-> EmptyDict, default_slots |-> EmptyDict]

NoLast == [u |-> "", h |-> "", arg |-> << >>, r |-> ""]

Init ==
  /\ data = EmptyData
  /\ conv = [u \in Users |-> [c \in ConvSet |-> Idle]]
  /\ user_data = [u \in Users |-> EmptyDict]
  /\ menu = [u \in Users |-> EmptyBag]
  /\ now = 0
  /\ entered = [u \in Users |-> 0]
  /\ last = NoLast

(* ------------------------------------------------------------------ *)
(* Updates and their dispatch                                           *)
(* ------------------------------------------------------------------ *)
\* A callback query carries the pressed button's callback_data, name + arg;
\* a text message its text; a command its name and arguments.
Cb(name, a) == [kind |-> "cb", name |-> name, arg |-> <<a>>]
Btn(name) == [kind |-> "cb", name |-> name, arg |-> << >>]
Text(t) == [kind |-> "text", name |-> "", arg |-> <<t>>]
Cmd(name, args) == [kind |-> "cmd", name |-> name, arg |-> args]

\* _get_main_menu_components: the buttons of the main menu
MainMenu == {Btn("add_person_start"), Btn("remove_person_start"), Btn("list_people_cmd"),
             Btn("add_account_start"), Btn("remove_account_start"), Btn("add_sub_start"),
             Btn("set_prices_start"), Btn("list_subs_cmd")}

\* CallbackQueryHandler(pattern=pat) accepts the data when re.match(pat, data)
\* finds a match at its start: the button names that begin with the pattern.
Prefixed ==
  ("set_prices_start" :>
     {"set_prices_start", "set_prices_start_dummy", "set_prices_start_dummy_end"})
  @@ ("^remove_person_.*" :> {"remove_person_", "remove_person_start"})
  @@ ("^remove_account_.*" :> {"remove_account_", "remove_account_start"})
  @@ ("^addacc_service_.*" :> {"addacc_service_"})
  @@ ("^addsub_person_.*" :> {"addsub_person_"})
  @@ ("^addsub_service_.*" :> {"addsub_service_"})
  @@ ("^addsub_account_.*" :> {"addsub_account_"})
  @@ ("^addsub_slot_.*" :> {"addsub_slot_"})
  @@ ("^addsub_duration_.*" :> {"addsub_duration_"})
  @@ ("^remprice_svc_.*" :> {"remprice_svc_"})
  @@ ("^remprice_dur_.*" :> {"remprice_dur_"})
  @@ ("^remsub_person_.*" :> {"remsub_person_"})
  @@ ("^remsub_confirm_.*" :> {"remsub_confirm_"})
\* a pattern without wildcard matches the names that begin with it; of the
\* buttons the bot sends only set_prices_start is the beginning of others
PatternNames(pat) == IF pat \in DOMAIN Prefixed THEN Prefixed[pat] ELSE {pat}

None == "none"

\* the handlers as main() constructs them
CbH(pat, h) == [kind |-> "cb", pat |-> pat, h |-> h]
AnyCbH(h) == [kind |-> "cb", pat |-> "", h |-> h]
CmdH(name, h) == [kind |-> "cmd", pat |-> name, h |-> h]
\* MessageHandler(filters.TEXT & ~filters.COMMAND, h)
TextH(h) == [kind |-> "text", pat |-> "", h |-> h]

\* the handler's check_update accepts the update
Accepts(hd, ev) ==
  /\ ev.kind = hd.kind
  /\ CASE hd.kind = "cb" -> hd.pat = "" \/ ev.name \in PatternNames(hd.pat)
       [] hd.kind = "cmd" -> ev.name = hd.pat
       [] OTHER -> TRUE

\* the callback of the first handler of the list hs, from the i-th on, that
\* accepts the update
RECURSIVE First(_, _, _)
First(hs, ev, i) ==
  IF i > Len(hs) THEN None
  ELSE IF Accepts(hs[i], ev) THEN hs[i].h
  ELSE First(hs, ev, i + 1)

\* fallbacks=[...], the same list in every ConversationHandler
Fallbacks == <<CmdH("cancel", "cancel"), CbH("cancel", "cancel"), CmdH("start", "start")>>

\* entry_points and states of each ConversationHandler
ConvTable ==
  [add_person_conv |->
     [entry_points |-> <<CbH("add_person_start", "add_person_start_cb")>>,
      states |-> [CHOOSE_PERSON_TO_ADD |-> <<TextH("add_person_receive")>>]],
   remove_person_conv |->
     [entry_points |-> <<CbH("remove_person_start", "remove_person_start_cb")>>,
      states |-> [CHOOSE_PERSON_TO_REMOVE |->
                    <<CbH("^remove_person_.*", "remove_person_confirm")>>]],
   add_account_conv |->
     [entry_points |-> <<CbH("add_account_start", "add_account_start_cb")>>,
      states |-> [GET_ACCOUNT_DETAILS |-> <<TextH("add_account_get_details")>>,
                  GET_ACCOUNT_SERVICE |->
                    <<CbH("^addacc_service_.*", "add_account_set_service")>>]],
   remove_account_conv |->
     [entry_points |-> <<CbH("remove_account_start", "remove_account_start_cb")>>,
      states |-> [CHOOSE_ACCOUNT_TO_REMOVE |->
                    <<CbH("^remove_account_.*", "remove_account_confirm")>>]],
   add_sub_conv |->
     [entry_points |-> <<CbH("add_sub_start", "add_sub_start_cb")>>,
      states |-> [SUB_CHOOSE_PERSON |-> <<CbH("^addsub_person_.*", "add_sub_person_chosen")>>,
                  SUB_CHOOSE_SERVICE |-> <<CbH("^addsub_service_.*", "add_sub_service_chosen")>>,
                  SUB_CHOOSE_ACCOUNT |-> <<CbH("^addsub_account_.*", "add_sub_account_chosen")>>,
                  SUB_CHOOSE_SLOT |-> <<CbH("^addsub_slot_.*", "add_sub_slot_chosen")>>,
                  SUB_CHOOSE_DURATION |->
                    <<CbH("^addsub_duration_.*", "add_sub_duration_chosen")>>]],
   set_price_conv |->
     [entry_points |-> <<CbH("set_prices_start", "set_prices_start_cb")>>,
      states |-> [PRICE_MAIN_MENU |-> <<AnyCbH("price_main_menu_handler")>>,
                  PRICE_GET_SERVICE_NAME |-> <<TextH("price_get_service_name_receive")>>,
                  PRICE_GET_EMOJI |-> <<TextH("price_get_emoji_receive"),
                                        CmdH("skip", "price_skip_emoji")>>,
                  PRICE_GET_DURATION_DAYS |-> <<TextH("price_get_duration_days_receive")>>,
                  PRICE_GET_PRICE_AMOUNT |->
                    <<TextH("price_get_amount_receive"),
                      CbH("set_prices_start_dummy_end", "set_prices_start_cb"),
                      CbH("main_menu_from_price_set_end", "main_menu_generic_handler")>>,
                  PRICE_REMOVE_SELECT_SERVICE |->
                    <<CbH("^remprice_svc_.*", "price_remove_select_service_handler")>>,
                  PRICE_REMOVE_SELECT_DURATION |->
                    <<CbH("^remprice_dur_.*", "price_remove_select_duration_handler")>>]],
   remove_sub_conv |->
     [entry_points |-> <<CmdH("removesub", "remove_sub_start_command")>>,
      states |-> [REMSUB_CHOOSE_PERSON |->
                    <<CbH("^remsub_person_.*", "remove_sub_person_selected")>>,
                  REMSUB_CHOOSE_SUBSCRIPTION |->
                    <<CbH("^remsub_confirm_.*", "remove_sub_confirm_and_delete")>>]]]

\* ConversationHandler.check_update: entry points for a user without a
\* conversation, else the state's handlers, else the fallbacks.
ConvHandler(c, s, ev) ==
  IF s = Idle THEN First(ConvTable[c].entry_points, ev, 1)
  ELSE LET h == First(ConvTable[c].states[s], ev, 1) IN
       IF h # None THEN h ELSE First(Fallbacks, ev, 1)

\* handlers added to the application outside the conversations
PlainBefore ==
  <<CbH("list_people_cmd", "handle_list_people_button"),
    CbH("list_subs_cmd", "handle_list_subs_button"),
    CbH("main_menu_generic", "main_menu_generic_handler")>>
PlainAfter ==
  <<CmdH("start", "start"), CmdH("listpeople", "list_people"),
    CmdH("listsubs", "list_subscriptions"), CmdH("income", "calculate_income"),
    CmdH("export", "export_data"), CmdH("setdefaultslots", "set_default_slots"),
    CmdH("addslot", "add_slot"), CmdH("removeslot", "remove_slot")>>

\* The callback data and commands the handlers tell apart: a button's name,
\* a command's name; a text message has neither.
ButtonNames ==
  {"add_person_start", "remove_person_start", "list_people_cmd", "add_account_start",
   "remove_account_start", "add_sub_start", "set_prices_start", "list_subs_cmd",
   "remove_person_", "addacc_service_", "remove_account_", "addsub_person_",
   "addsub_service_", "addsub_account_", "addsub_slot_", "addsub_duration_",
   "setprice_add_edit_service", "setprice_view_services", "setprice_remove_option_start",
   "main_menu_from_prices", "set_prices_start_dummy", "set_prices_start_dummy_end",
   "main_menu_from_price_set_end", "remprice_svc_", "remprice_dur_", "remsub_person_",
   "remsub_confirm_"}
CommandNames ==
  {"start", "cancel", "skip", "removesub", "listpeople", "listsubs", "income", "export",
   "setdefaultslots", "addslot", "removeslot"}
Shapes ==
  [kind : {"cb"}, name : ButtonNames] \cup [kind : {"cmd"}, name : CommandNames]
  \cup [kind : {"text"}, name : {""}]

\* What each ConversationHandler, in each of its states, and the plain
\* handlers before and after them answer to each shape of update, tabulated.
RECURSIVE ShapeRoutes(_, _, _)
ShapeRoutes(c, s, es) ==
  IF es = {} THEN << >>
  ELSE LET e == CHOOSE x \in es : TRUE IN
       (e :> ConvHandler(c, s, e)) @@ ShapeRoutes(c, s, es \ {e})
RECURSIVE StateRoutes(_, _)
StateRoutes(c, ss) ==
  IF ss = {} THEN << >>
  ELSE LET s == CHOOSE x \in ss : TRUE IN
       (s :> ShapeRoutes(c, s, Shapes)) @@ StateRoutes(c, ss \ {s})
RECURSIVE Routes(_)
Routes(cs) ==
  IF cs = {} THEN << >>
  ELSE LET c == CHOOSE x \in cs : TRUE IN
       (c :> StateRoutes(c, {Idle} \cup DOMAIN ConvTable[c].states)) @@ Routes(cs \ {c})
ConvRoutes == Routes(ConvSet)
RECURSIVE PlainShapeRoutes(_)
PlainShapeRoutes(es) ==
  IF es = {} THEN << >>
  ELSE LET e == CHOOSE x \in es : TRUE IN
       (e :> [before |-> First(PlainBefore, e, 1), after |-> First(PlainAfter, e, 1)])
       @@ PlainShapeRoutes(es \ {e})
PlainRoutes == PlainShapeRoutes(Shapes)

\* Application.process_update: the first handler, in the order they were
\* added, whose check_update accepts the update handles it; c is the
\* conversation it belongs to (None for a plain handler).
RECURSIVE FirstConv(_, _, _)
FirstConv(u, e, i) ==
  IF i > Len(Convs) THEN [c |-> None, h |-> PlainRoutes[e].after]
  ELSE LET h == ConvRoutes[Convs[i]][conv[u][Convs[i]]][e] IN
       IF h # None THEN [c |-> Convs[i], h |-> h]
       ELSE FirstConv(u, e, i + 1)

Dispatch(u, ev) ==
  LET e == [kind |-> ev.kind, name |-> ev.name]
      h == PlainRoutes[e].before
  IN IF h # None THEN [c |-> None, h |-> h] ELSE FirstConv(u, e, 1)

(* ------------------------------------------------------------------ *)
(* What a handler does to the session                                   *)
(* ------------------------------------------------------------------ *)
\* the part of the callback data after the prefix: data.replace(prefix, "")
Param(ev) ==
  IF ev.arg # << >> THEN ev.arg[1]
  ELSE IF ev.name \in {"remove_person_start", "remove_account_start"} THEN "start"
  ELSE ev.name

PriceMenu == {Btn("setprice_add_edit_service"), Btn("setprice_view_services"),
              Btn("setprice_remove_option_start"), Btn("main_menu_from_prices")}
WhatNextMenu == {Btn("set_prices_start_dummy_end"), Btn("main_menu_from_price_set_end")}

\* query.edit_message_text(.., reply_markup=buttons): the message that held the
\* pressed button now shows `buttons` (none when it is edited to plain text).
\* The other messages keep their keyboards.  K is the keyboard of the message
\* that was pressed: one of those on screen that hold the button.
Pressed(u, ev) ==
  IF ev \in MainMenu THEN {MainMenu} ELSE {K \in BagToSet(menu[u]) : ev \in K}
Shown(keyboards, buttons) ==
  IF buttons = {} THEN keyboards ELSE keyboards (+) SetToBag({buttons})
Edit(u, ev, buttons) ==
  \E K \in Pressed(u, ev) :
    menu' = [menu EXCEPT ![u] = Shown(@ (-) SetToBag({K}), buttons)]
\* reply_text / send_message: a new message; the ones on screen stay
Send(u, buttons) == menu' = [menu EXCEPT ![u] = Shown(@, buttons)]

\* the buttons of the keyboards `keyboards`
ScreenOf(keyboards) == UNION BagToSet(keyboards)

\* the state the handler returns; ConversationHandler.END drops the user's key
Goto(u, c, s) ==
  IF c = None THEN UNCHANGED <<conv, entered>>
  ELSE /\ conv' = [conv EXCEPT ![u][c] = s]
       /\ entered' = [entered EXCEPT ![u] = IF conv[u][c] = Idle THEN @ + 1 ELSE @]
End(u, c) == Goto(u, c, Idle)

Said(u, h, ev, r) == last' = [u |-> u, h |-> h, arg |-> ev.arg, r |-> r]

\* save_data(data)
Save(d) == data' = d

Today == StrfDate(now)
people == data.people
accounts == data.accounts
services == data.services

(* ------------------------------------------------------------------ *)
(* start, cancel, the read-only commands                                *)
(* ------------------------------------------------------------------ *)
start(u, ev, c) ==
  /\ End(u, c)
  /\ UNCHANGED <<data, user_data, menu, now>>
  /\ Said(u, "start", ev, "menu")

keys_to_clear == {"new_account_name", "addsub_person", "addsub_service", "addsub_account",
                  "addsub_slot", "addsub_duration", "price_service_name",
                  "price_duration_days", "removeprice_service", "remove_sub_person"}

\* cancel returning the state the conversation is in instead of END
cancel_staying(u, ev, c) ==
  /\ user_data' = [user_data EXCEPT ![u] = [k \in (DOMAIN @) \ keys_to_clear |-> @[k]]]
  /\ Goto(u, c, conv[u][c])
  /\ IF ev.kind = "cb" THEN Edit(u, ev, {}) ELSE UNCHANGED menu
  /\ UNCHANGED <<data, now>>
  /\ Said(u, "cancel", ev, "cancelled")

\* cancel deleting the collected keys of every user
cancel_everyone(u, ev, c) ==
  /\ user_data' = [v \in Users |-> [k \in (DOMAIN user_data[v]) \ keys_to_clear |-> user_data[v][k]]]
  /\ End(u, c)
  /\ IF ev.kind = "cb" THEN Edit(u, ev, {}) ELSE UNCHANGED menu
  /\ UNCHANGED <<data, now>>
  /\ Said(u, "cancel", ev, "cancelled")

cancel(u, ev, c) ==
  /\ user_data' = [user_data EXCEPT ![u] = [k \in (DOMAIN @) \ keys_to_clear |-> @[k]]]
  /\ End(u, c)
  /\ IF ev.kind = "cb" THEN Edit(u, ev, {}) ELSE UNCHANGED menu
  /\ UNCHANGED <<data, now>>
  /\ Said(u, "cancel", ev, "cancelled")

main_menu_generic_handler(u, ev, c) ==
  /\ End(u, c)
  /\ UNCHANGED <<data, user_data, menu, now>>
  /\ Said(u, "main_menu_generic_handler", ev, "menu")

\* sum(float(sub.get("price", 0))): the recorded prices, "N/A" raising ValueError
RECURSIVE SumPrices(_)
SumPrices(subs) ==
  IF subs = << >> THEN 0
  ELSE (IF Head(subs).price = NoPrice THEN 0 ELSE Head(subs).price) + SumPrices(Tail(subs))
RECURSIVE SumOver(_, _)
SumOver(ppl, names) ==
  IF names = {} THEN 0
  ELSE LET n == CHOOSE x \in names : TRUE IN
       SumPrices(ppl[n].subscriptions) + SumOver(ppl, names \ {n})
Income(d) == SumOver(d.people, DOMAIN d.people)

\* list_people, list_subscriptions, export_data, calculate_income and the two
\* list buttons only read the snapshot.
ReadOnly(u, ev, h) ==
  /\ UNCHANGED <<data, conv, user_data, now, entered>>
  /\ IF ev.kind = "cb" THEN Edit(u, ev, {}) ELSE UNCHANGED menu
  /\ Said(u, h, ev, "shown")
calculate_income(u, ev) ==
  /\ UNCHANGED <<data, conv, user_data, menu, now, entered>>
  /\ last' = [u |-> u, h |-> "calculate_income", arg |-> ev.arg, r |-> "total",
              total |-> Income(data)]

(* ------------------------------------------------------------------ *)
(* Add Person, Remove Person                                            *)
(* ------------------------------------------------------------------ *)
add_person_start_cb(u, ev, c) ==
  /\ Goto(u, c, "CHOOSE_PERSON_TO_ADD")
  /\ Edit(u, ev, {})
  /\ UNCHANGED <<data, user_data, now>>
  /\ Said(u, "add_person_start_cb", ev, "prompt")

NewPerson == [subscriptions |-> << >>, last_active |-> Today]

\* add_person_receive without the test for a name that exists
add_person_overwriting(u, ev, c) ==
  LET person_name == ev.arg[1] IN
  /\ Save([data EXCEPT !.people = Put(@, person_name, NewPerson)])
  /\ Said(u, "add_person_receive", ev, IF person_name \in DOMAIN people THEN "exists" ELSE "added")
  /\ End(u, c)
  /\ UNCHANGED <<user_data, menu, now>>

add_person_receive(u, ev, c) ==
  LET person_name == ev.arg[1] IN
  /\ IF person_name \in DOMAIN people
     THEN UNCHANGED data /\ Said(u, "add_person_receive", ev, "exists")
     ELSE /\ Save([data EXCEPT !.people = Put(@, person_name, NewPerson)])
          /\ Said(u, "add_person_receive", ev, "added")
  /\ End(u, c)
  /\ UNCHANGED <<user_data, menu, now>>

remove_person_start_cb(u, ev, c) ==
  /\ IF DOMAIN people = {}
     THEN End(u, c) /\ Edit(u, ev, {}) /\ Said(u, "remove_person_start_cb", ev, "empty")
     ELSE /\ Goto(u, c, "CHOOSE_PERSON_TO_REMOVE")
          /\ Edit(u, ev, {Cb("remove_person_", n) : n \in DOMAIN people})
          /\ Said(u, "remove_person_start_cb", ev, "menu")
  /\ UNCHANGED <<data, user_data, now>>

\* FreeSlotsOf without its loop: the slots stay as they are
KeepSlotsOf(accs, person_name) == accs

\* every slot of every account held by person_name becomes empty
FreeSlotsOf(accs, person_name) ==
  [a \in DOMAIN accs |->
     [accs[a] EXCEPT !.slots =
        [k \in DOMAIN @ |-> IF @[k] = person_name THEN Null ELSE @[k]]]]

\* the "Freed slot .. in account .." log lines: the slots person_name held
FreedLog(accs, person_name) ==
  {<<a, k>> \in UNION {{a} \X DOMAIN accs[a].slots : a \in DOMAIN accs} :
     accs[a].slots[k] = person_name}

\* RemovePersonData with a loop that empties every slot, whoever holds it
RemovePersonClearing(d, person_name) ==
  [d EXCEPT !.accounts = [a \in DOMAIN @ |->
                            [@[a] EXCEPT !.slots = [k \in DOMAIN @ |-> Null]]],
            !.people = Del(@, person_name)]

RemovePersonData(d, person_name) ==
  [d EXCEPT !.accounts = FreeSlotsOf(@, person_name),
            !.people = Del(@, person_name)]

remove_person_confirm(u, ev, c) ==
  LET person_name == Param(ev) IN
  /\ IF person_name \in DOMAIN people
     THEN /\ Save(RemovePersonData(data, person_name))
          /\ last' = [u |-> u, h |-> "remove_person_confirm", arg |-> ev.arg, r |-> "removed",
                      person |-> person_name,
                      freed |-> FreedLog(accounts, person_name)]
     ELSE UNCHANGED data /\ Said(u, "remove_person_confirm", ev, "not_found")
  /\ End(u, c)
  /\ Edit(u, ev, {})
  /\ UNCHANGED <<user_data, now>>

(* ------------------------------------------------------------------ *)
(* Add Account, Remove Account                                          *)
(* ------------------------------------------------------------------ *)
add_account_start_cb(u, ev, c) ==
  /\ Goto(u, c, "GET_ACCOUNT_DETAILS")
  /\ Edit(u, ev, {})
  /\ UNCHANGED <<data, user_data, now>>
  /\ Said(u, "add_account_start_cb", ev, "prompt")

add_account_get_details(u, ev, c) ==
  LET account_name == ev.arg[1] IN
  IF account_name \in DOMAIN accounts
  THEN /\ Goto(u, c, "GET_ACCOUNT_DETAILS")
       /\ UNCHANGED <<data, user_data, menu, now>>
       /\ Said(u, "add_account_get_details", ev, "exists")
  ELSE /\ user_data' = [user_data EXCEPT ![u] = Put(@, "new_account_name", account_name)]
       /\ UNCHANGED now
       /\ IF DOMAIN services = {}
          THEN /\ Save([data EXCEPT !.accounts =
                          Put(@, account_name, [service |-> Null, slots |-> EmptyDict])])
               /\ End(u, c)
               /\ UNCHANGED menu
               /\ Said(u, "add_account_get_details", ev, "added_no_service")
          ELSE /\ UNCHANGED data
               /\ Goto(u, c, "GET_ACCOUNT_SERVICE")
               /\ Send(u, {Cb("addacc_service_", s) : s \in DOMAIN services})
               /\ Said(u, "add_account_get_details", ev, "menu")

\* DefaultSlots counting from zero
DefaultSlotsFromZero(n) == [k \in {StrOf(i) : i \in 0..(n - 1)} |-> Null]

\* slots "1".."n" of a new account, all empty
DefaultSlots(n) == [k \in {StrOf(i) : i \in 1..n} |-> Null]

NewAccount(d, service_name) ==
  LET default_slots_count == Get(d.default_slots, service_name, 0) IN
  [service |-> service_name,
   slots |-> IF default_slots_count > 0 THEN DefaultSlots(default_slots_count) ELSE EmptyDict]

add_account_set_service(u, ev, c) ==
  LET service_name == Param(ev) IN
  /\ IF "new_account_name" \notin DOMAIN user_data[u]
     THEN UNCHANGED data /\ Said(u, "add_account_set_service", ev, "lost")
     ELSE /\ Save([data EXCEPT !.accounts =
                     Put(@, user_data[u]["new_account_name"], NewAccount(data, service_name))])
          /\ Said(u, "add_account_set_service", ev, "added")
  /\ End(u, c)
  /\ Edit(u, ev, {})
  /\ UNCHANGED <<user_data, now>>

remove_account_start_cb(u, ev, c) ==
  /\ IF DOMAIN accounts = {}
     THEN End(u, c) /\ Edit(u, ev, {}) /\ Said(u, "remove_account_start_cb", ev, "empty")
     ELSE /\ Goto(u, c, "CHOOSE_ACCOUNT_TO_REMOVE")
          /\ Edit(u, ev, {Cb("remove_account_", a) : a \in DOMAIN accounts})
          /\ Said(u, "remove_account_start_cb", ev, "menu")
  /\ UNCHANGED <<data, user_data, now>>

\* ActiveSubsOn without its loops: active_subs_on_account stays False
NoSubsOn(d, account_name) == FALSE

\* some person has a subscription whose account is account_name
ActiveSubsOn(d, account_name) ==
  \E p \in DOMAIN d.people :
    \E i \in 1..Len(d.people[p].subscriptions) :
      d.people[p].subscriptions[i].account = account_name

remove_account_confirm(u, ev, c) ==
  LET account_name == Param(ev) IN
  /\ IF account_name \in DOMAIN accounts
     THEN IF ActiveSubsOn(data, account_name)
          THEN UNCHANGED data /\ Said(u, "remove_account_confirm", ev, "active_subs")
          ELSE /\ Save([data EXCEPT !.accounts = Del(@, account_name)])
               /\ Said(u, "remove_account_confirm", ev, "removed")
     ELSE UNCHANGED data /\ Said(u, "remove_account_confirm", ev, "not_found")
  /\ End(u, c)
  /\ Edit(u, ev, {})
  /\ UNCHANGED <<user_data, now>>

(* ------------------------------------------------------------------ *)
(* Add Subscription                                                     *)
(* ------------------------------------------------------------------ *)
add_sub_start_cb(u, ev, c) ==
  /\ IF DOMAIN people = {}
     THEN End(u, c) /\ Edit(u, ev, {}) /\ Said(u, "add_sub_start_cb", ev, "empty")
     ELSE /\ Goto(u, c, "SUB_CHOOSE_PERSON")
          /\ Edit(u, ev, {Cb("addsub_person_", n) : n \in DOMAIN people})
          /\ Said(u, "add_sub_start_cb", ev, "menu")
  /\ UNCHANGED <<data, user_data, now>>

add_sub_person_chosen(u, ev, c) ==
  /\ user_data' = [user_data EXCEPT ![u] = Put(@, "addsub_person", Param(ev))]
  /\ IF DOMAIN services = {}
     THEN End(u, c) /\ Edit(u, ev, {}) /\ Said(u, "add_sub_person_chosen", ev, "empty")
     ELSE /\ Goto(u, c, "SUB_CHOOSE_SERVICE")
          /\ Edit(u, ev, {Cb("addsub_service_", s) : s \in DOMAIN services})
          /\ Said(u, "add_sub_person_chosen", ev, "menu")
  /\ UNCHANGED <<data, now>>

add_sub_service_chosen(u, ev, c) ==
  LET service_name == Param(ev)
      filtered_accounts == {a \in DOMAIN accounts : accounts[a].service = service_name}
  IN
  /\ user_data' = [user_data EXCEPT ![u] = Put(@, "addsub_service", service_name)]
  /\ IF filtered_accounts = {}
     THEN End(u, c) /\ Edit(u, ev, {}) /\ Said(u, "add_sub_service_chosen", ev, "empty")
     ELSE /\ Goto(u, c, "SUB_CHOOSE_ACCOUNT")
          /\ Edit(u, ev, {Cb("addsub_account_", a) : a \in filtered_accounts})
          /\ Said(u, "add_sub_service_chosen", ev, "menu")
  /\ UNCHANGED <<data, now>>

FreeSlots(account) == {k \in DOMAIN account.slots : account.slots[k] = Null}

add_sub_account_chosen(u, ev, c) ==
  LET account_name == Param(ev) IN
  /\ user_data' = [user_data EXCEPT ![u] = Put(@, "addsub_account", account_name)]
  /\ IF account_name \notin DOMAIN accounts
     THEN End(u, c) /\ Edit(u, ev, {}) /\ Said(u, "add_sub_account_chosen", ev, "vanished")
     ELSE IF DOMAIN accounts[account_name].slots = {}
     THEN End(u, c) /\ Edit(u, ev, {}) /\ Said(u, "add_sub_account_chosen", ev, "no_slots")
     ELSE IF FreeSlots(accounts[account_name]) = {}
     THEN End(u, c) /\ Edit(u, ev, {}) /\ Said(u, "add_sub_account_chosen", ev, "no_free_slots")
     ELSE /\ Goto(u, c, "SUB_CHOOSE_SLOT")
          /\ Edit(u, ev, {Cb("addsub_slot_", k) : k \in FreeSlots(accounts[account_name])})
          /\ Said(u, "add_sub_account_chosen", ev, "menu")
  /\ UNCHANGED <<data, now>>

\* data["services"].get(service_name, {}).get("durations", {})
DurationsOf(d, service_name) ==
  IF service_name \in DOMAIN d.services THEN d.services[service_name].durations ELSE EmptyDict

add_sub_slot_chosen(u, ev, c) ==
  LET service_name == Get(user_data[u], "addsub_service", Null)
      durations == DurationsOf(data, service_name)
  IN
  /\ user_data' = [user_data EXCEPT ![u] = Put(@, "addsub_slot", Param(ev))]
  /\ IF DOMAIN durations = {}
     THEN End(u, c) /\ Edit(u, ev, {}) /\ Said(u, "add_sub_slot_chosen", ev, "empty")
     ELSE /\ Goto(u, c, "SUB_CHOOSE_DURATION")
          /\ Edit(u, ev, {Cb("addsub_duration_", days) : days \in DOMAIN durations})
          /\ Said(u, "add_sub_slot_chosen", ev, "menu")
  /\ UNCHANGED <<data, now>>

\* the record appended to the person's subscriptions
NewSubscription(d, service_name, account_name, slot_num_str, duration_days, t) ==
  [service |-> service_name,
   account |-> account_name,
   slot |-> slot_num_str,
   duration |-> duration_days,
   end_date |-> StrfDate(t + duration_days * TicksPerDay),
   price |-> Get(DurationsOf(d, service_name), StrOf(duration_days), NoPrice)]

\* the finalization's test before the slot is written
SlotWritable(d, account_name, slot_num_str) ==
  /\ account_name \in DOMAIN d.accounts
  /\ slot_num_str \in DOMAIN d.accounts[account_name].slots

\* the snapshot saved by a subscription's finalization: the clock is read at t
\* for the end date and again, at `later`, for last_active
AddSubData(d, person_name, service_name, account_name, slot_num_str, duration_days, t, later) ==
  LET person == Get(d.people, person_name,
                    [subscriptions |-> << >>, last_active |-> StrfDate(later)])
      sub == NewSubscription(d, service_name, account_name, slot_num_str, duration_days, t)
  IN [d EXCEPT !.accounts[account_name].slots[slot_num_str] = person_name,
               !.people = Put(@, person_name,
                              [subscriptions |-> Append(person.subscriptions, sub),
                               last_active |-> StrfDate(later)])]

\* the instants at which a later utcnow() of the same call can fall: the same
\* tick, or the next one when midnight lies between the two reads (a later
\* read on the same day gives the same date text)
LaterReads(t) == {t} \cup (IF StrfDate(t + 1) # StrfDate(t) THEN {t + 1} ELSE {})

add_sub_duration_chosen(u, ev, c) ==
  IF ~IsIntText(Param(ev))
  THEN /\ End(u, c) /\ Edit(u, ev, {})
       /\ UNCHANGED <<data, user_data, now>>
       /\ Said(u, "add_sub_duration_chosen", ev, "invalid")
  ELSE
    LET duration_days == IntOf(Param(ev))
        ud == Put(user_data[u], "addsub_duration", duration_days)
        person_name == Get(ud, "addsub_person", Null)
        account_name == Get(ud, "addsub_account", Null)
        slot_num_str == Get(ud, "addsub_slot", Null)
        service_name == Get(ud, "addsub_service", Null)
    IN
    /\ user_data' = [user_data EXCEPT ![u] = ud]
    /\ IF SlotWritable(data, account_name, slot_num_str)
       THEN \E later \in LaterReads(now) :
              /\ Save(AddSubData(data, person_name, service_name, account_name,
                                 slot_num_str, duration_days, now, later))
              /\ now' = later
              /\ Said(u, "add_sub_duration_chosen", ev, "activated")
       ELSE /\ UNCHANGED <<data, now>>
            /\ Said(u, "add_sub_duration_chosen", ev, "slot_not_found")
    /\ End(u, c)
    /\ Edit(u, ev, {})

(* ------------------------------------------------------------------ *)
(* Set Prices, Remove Price Option                                      *)
(* ------------------------------------------------------------------ *)
DefaultEmoji == "?"

set_prices_start_cb(u, ev, c) ==
  /\ Goto(u, c, "PRICE_MAIN_MENU")
  /\ Edit(u, ev, PriceMenu)
  /\ UNCHANGED <<data, user_data, now>>
  /\ Said(u, "set_prices_start_cb", ev, "menu")

ServicesWithPrices(d) == {s \in DOMAIN d.services : DOMAIN d.services[s].durations # {}}

price_main_menu_handler(u, ev, c) ==
  LET action == ev.name IN
  /\ UNCHANGED <<data, user_data, now>>
  /\ CASE action = "setprice_view_services" /\ ev.arg = << >> ->
            /\ Goto(u, c, "PRICE_MAIN_MENU")
            /\ IF DOMAIN services = {}
               THEN Edit(u, ev, {}) /\ Said(u, "price_main_menu_handler", ev, "view_empty")
               ELSE /\ Edit(u, ev, {Btn("set_prices_start_dummy")})
                    /\ Said(u, "price_main_menu_handler", ev, "view")
       [] action = "main_menu_from_prices" /\ ev.arg = << >> ->
            End(u, c) /\ Edit(u, ev, {}) /\ Said(u, "price_main_menu_handler", ev, "main_menu")
       [] action = "setprice_add_edit_service" /\ ev.arg = << >> ->
            /\ Goto(u, c, "PRICE_GET_SERVICE_NAME")
            /\ Edit(u, ev, {})
            /\ Said(u, "price_main_menu_handler", ev, "prompt")
       [] action = "setprice_remove_option_start" /\ ev.arg = << >> ->
            IF ServicesWithPrices(data) = {}
            THEN /\ Goto(u, c, "PRICE_MAIN_MENU")
                 /\ Edit(u, ev, {})
                 /\ Said(u, "price_main_menu_handler", ev, "remove_empty")
            ELSE /\ Goto(u, c, "PRICE_REMOVE_SELECT_SERVICE")
                 /\ Edit(u, ev, {Cb("remprice_svc_", s) : s \in ServicesWithPrices(data)})
                 /\ Said(u, "price_main_menu_handler", ev, "remove_menu")
       [] action = "set_prices_start_dummy" /\ ev.arg = << >> ->
            /\ Goto(u, c, "PRICE_MAIN_MENU")
            /\ Edit(u, ev, PriceMenu)
            /\ Said(u, "price_main_menu_handler", ev, "menu")
       [] OTHER ->
            /\ Goto(u, c, "PRICE_MAIN_MENU")
            /\ UNCHANGED menu
            /\ Said(u, "price_main_menu_handler", ev, "no_action")

\* the local copy gets the service, but nothing is saved
price_get_service_name_receive(u, ev, c) ==
  /\ user_data' = [user_data EXCEPT ![u] = Put(@, "price_service_name", ev.arg[1])]
  /\ Goto(u, c, "PRICE_GET_EMOJI")
  /\ UNCHANGED <<data, menu, now>>
  /\ Said(u, "price_get_service_name_receive", ev, "prompt")

\* the service with this emoji, created without durations when absent
WithEmoji(d, service_name, emoji) ==
  IF service_name \in DOMAIN d.services
  THEN [d EXCEPT !.services[service_name].emoji = emoji]
  ELSE [d EXCEPT !.services = Put(@, service_name, [emoji |-> emoji, durations |-> EmptyDict])]

price_get_emoji_receive(u, ev, c) ==
  /\ IF "price_service_name" \in DOMAIN user_data[u]
     THEN /\ Save(WithEmoji(data, user_data[u]["price_service_name"], ev.arg[1]))
          /\ Goto(u, c, "PRICE_GET_DURATION_DAYS")
          /\ Said(u, "price_get_emoji_receive", ev, "saved")
     ELSE UNCHANGED data /\ End(u, c) /\ Said(u, "price_get_emoji_receive", ev, "lost")
  /\ UNCHANGED <<user_data, menu, now>>

price_skip_emoji(u, ev, c) ==
  /\ IF /\ "price_service_name" \in DOMAIN user_data[u]
        /\ user_data[u]["price_service_name"] \notin DOMAIN services
     THEN Save(WithEmoji(data, user_data[u]["price_service_name"], DefaultEmoji))
     ELSE UNCHANGED data
  /\ Goto(u, c, "PRICE_GET_DURATION_DAYS")
  /\ UNCHANGED <<user_data, menu, now>>
  /\ Said(u, "price_skip_emoji", ev, "skipped")

price_get_duration_days_receive(u, ev, c) ==
  LET duration_str == ev.arg[1] IN
  IF ~IsDigit(duration_str) \/ IntOf(duration_str) <= 0
  THEN /\ Goto(u, c, "PRICE_GET_DURATION_DAYS")
       /\ UNCHANGED <<data, user_data, menu, now>>
       /\ Said(u, "price_get_duration_days_receive", ev, "invalid")
  ELSE /\ user_data' = [user_data EXCEPT ![u] = Put(@, "price_duration_days", IntOf(duration_str))]
       /\ Goto(u, c, "PRICE_GET_PRICE_AMOUNT")
       /\ UNCHANGED <<data, menu, now>>
       /\ Said(u, "price_get_duration_days_receive", ev, "prompt")

\* SetPriceData that also rewrites the price stored in the subscriptions of
\* that service and duration
SetPriceRetroactive(d, service_name, duration_days, price_val) ==
  LET svc == Get(d.services, service_name, [emoji |-> DefaultEmoji, durations |-> EmptyDict]) IN
  [d EXCEPT !.services =
              Put(@, service_name, [svc EXCEPT !.durations = Put(@, StrOf(duration_days), price_val)]),
            !.people =
              [n \in DOMAIN @ |->
                 [@[n] EXCEPT !.subscriptions =
                    [i \in 1..Len(@) |->
                       IF @[i].service = service_name /\ @[i].duration = duration_days
                       THEN [@[i] EXCEPT !.price = price_val] ELSE @[i]]]]]

\* the catalog with service_name's price for duration_days set to price_val
SetPriceData(d, service_name, duration_days, price_val) ==
  LET svc == Get(d.services, service_name, [emoji |-> DefaultEmoji, durations |-> EmptyDict]) IN
  [d EXCEPT !.services =
     Put(@, service_name, [svc EXCEPT !.durations = Put(@, StrOf(duration_days), price_val)])]

price_get_amount_receive(u, ev, c) ==
  LET price_str == ev.arg[1] IN
  IF ~IsFloatText(price_str) \/ CentsOf(price_str) < 0
  THEN /\ Goto(u, c, "PRICE_GET_PRICE_AMOUNT")
       /\ UNCHANGED <<data, user_data, menu, now>>
       /\ Said(u, "price_get_amount_receive", ev, "invalid")
  ELSE IF \/ "price_service_name" \notin DOMAIN user_data[u]
          \/ "price_duration_days" \notin DOMAIN user_data[u]
  THEN /\ End(u, c)
       /\ UNCHANGED <<data, user_data, menu, now>>
       /\ Said(u, "price_get_amount_receive", ev, "lost")
  ELSE /\ Save(SetPriceData(data, user_data[u]["price_service_name"],
                            user_data[u]["price_duration_days"], CentsOf(price_str)))
       /\ Goto(u, c, "PRICE_MAIN_MENU")
       /\ Send(u, WhatNextMenu)
       /\ UNCHANGED <<user_data, now>>
       /\ Said(u, "price_get_amount_receive", ev, "price_set")

price_remove_select_service_handler(u, ev, c) ==
  LET service_name == Param(ev)
      durations == DurationsOf(data, service_name)
  IN
  /\ user_data' = [user_data EXCEPT ![u] = Put(@, "removeprice_service", service_name)]
  /\ IF DOMAIN durations = {}
     THEN /\ Goto(u, c, "PRICE_MAIN_MENU")
          /\ Edit(u, ev, {})
          /\ Said(u, "price_remove_select_service_handler", ev, "empty")
     ELSE /\ Goto(u, c, "PRICE_REMOVE_SELECT_DURATION")
          /\ Edit(u, ev, {Cb("remprice_dur_", days) : days \in DOMAIN durations})
          /\ Said(u, "price_remove_select_service_handler", ev, "menu")
  /\ UNCHANGED <<data, now>>

RemovePriceData(d, service_name, duration_to_remove) ==
  [d EXCEPT !.services[service_name].durations = Del(@, duration_to_remove)]

price_remove_select_duration_handler(u, ev, c) ==
  LET duration_to_remove == Param(ev)
      service_name == Get(user_data[u], "removeprice_service", Null)
  IN
  /\ IF /\ service_name \in DOMAIN services
        /\ duration_to_remove \in DOMAIN services[service_name].durations
     THEN /\ Save(RemovePriceData(data, service_name, duration_to_remove))
          /\ Said(u, "price_remove_select_duration_handler", ev, "removed")
     ELSE UNCHANGED data /\ Said(u, "price_remove_select_duration_handler", ev, "not_found")
  /\ user_data' = [user_data EXCEPT ![u] = Del(@, "removeprice_service")]
  /\ End(u, c)
  /\ Edit(u, ev, {})
  /\ UNCHANGED now

(* ------------------------------------------------------------------ *)
(* Remove Subscription (/removesub)                                     *)
(* ------------------------------------------------------------------ *)
\* the button of the subscription at python index i, labelled with the record
SubBtn(i, sub) ==
  [kind |-> "cb", name |-> "remsub_confirm_", arg |-> <<StrOf(i)>>, shown |-> sub]

remove_sub_start_command(u, ev, c) ==
  LET active_people_with_subs == {n \in DOMAIN people : people[n].subscriptions # << >>} IN
  /\ IF active_people_with_subs = {}
     THEN End(u, c) /\ UNCHANGED menu /\ Said(u, "remove_sub_start_command", ev, "empty")
     ELSE /\ Goto(u, c, "REMSUB_CHOOSE_PERSON")
          /\ Send(u, {Cb("remsub_person_", n) : n \in active_people_with_subs})
          /\ Said(u, "remove_sub_start_command", ev, "menu")
  /\ UNCHANGED <<data, user_data, now>>

remove_sub_person_selected(u, ev, c) ==
  LET person_name == Param(ev) IN
  /\ UNCHANGED <<data, now>>
  /\ IF person_name \notin DOMAIN people \/ people[person_name].subscriptions = << >>
     THEN /\ user_data' = [user_data EXCEPT ![u] = Del(@, "remove_sub_person")]
          /\ End(u, c)
          /\ Edit(u, ev, {})
          /\ Said(u, "remove_sub_person_selected", ev, "not_found")
     ELSE LET subs == people[person_name].subscriptions IN
          /\ user_data' = [user_data EXCEPT ![u] = Put(@, "remove_sub_person", person_name)]
          /\ Goto(u, c, "REMSUB_CHOOSE_SUBSCRIPTION")
          /\ Edit(u, ev, {SubBtn(i - 1, subs[i]) : i \in 1..Len(subs)})
          /\ Said(u, "remove_sub_person_selected", ev, "menu")

\* RemoveSubData without the update of last_active: the person keeps the
\* date stored before
RemoveSubStale(d, person_name, sub_index, today) ==
  LET subs == d.people[person_name].subscriptions
      removed_sub_info == subs[sub_index + 1]
      account_name == removed_sub_info.account
      slot_num_str == removed_sub_info.slot
      d1 == [d EXCEPT !.people[person_name].subscriptions = Pop(subs, sub_index + 1)]
  IN IF /\ account_name \in DOMAIN d.accounts
        /\ slot_num_str \in DOMAIN d.accounts[account_name].slots
        /\ d.accounts[account_name].slots[slot_num_str] = person_name
     THEN [d1 EXCEPT !.accounts[account_name].slots[slot_num_str] = Null]
     ELSE d1

\* RemoveSubData without the test of the occupant: the slot is emptied
\* whoever holds it
RemoveSubFreeing(d, person_name, sub_index, today) ==
  LET subs == d.people[person_name].subscriptions
      removed_sub_info == subs[sub_index + 1]
      account_name == removed_sub_info.account
      slot_num_str == removed_sub_info.slot
      d1 == [d EXCEPT !.people[person_name].subscriptions = Pop(subs, sub_index + 1),
                      !.people[person_name].last_active = today]
  IN IF /\ account_name \in DOMAIN d.accounts
        /\ slot_num_str \in DOMAIN d.accounts[account_name].slots
     THEN [d1 EXCEPT !.accounts[account_name].slots[slot_num_str] = Null]
     ELSE d1

\* the snapshot saved when person_name's subscription at python index sub_index
\* is removed on day `today`
RemoveSubData(d, person_name, sub_index, today) ==
  LET subs == d.people[person_name].subscriptions
      removed_sub_info == subs[sub_index + 1]
      account_name == removed_sub_info.account
      slot_num_str == removed_sub_info.slot
      d1 == [d EXCEPT !.people[person_name].subscriptions = Pop(subs, sub_index + 1),
                      !.people[person_name].last_active = today]
  IN IF /\ account_name \in DOMAIN d.accounts
        /\ slot_num_str \in DOMAIN d.accounts[account_name].slots
        /\ d.accounts[account_name].slots[slot_num_str] = person_name
     THEN [d1 EXCEPT !.accounts[account_name].slots[slot_num_str] = Null]
     ELSE d1

\* which of the three slot_freed_msg texts the reply carries
slot_freed_msg(d, person_name, removed_sub_info) ==
  IF /\ removed_sub_info.account \in DOMAIN d.accounts
     /\ removed_sub_info.slot \in DOMAIN d.accounts[removed_sub_info.account].slots
  THEN IF d.accounts[removed_sub_info.account].slots[removed_sub_info.slot] = person_name
       THEN "now_free" ELSE "not_held"
  ELSE "unverified"

\* remove_sub_confirm_and_delete testing only that the person exists: a
\* position outside the list reaches list.pop, which raises IndexError
remove_sub_confirm_unguarded(u, ev, c) ==
  IF ~IsIntText(Param(ev))
  THEN /\ Goto(u, c, "REMSUB_CHOOSE_SUBSCRIPTION")
       /\ Edit(u, ev, {})
       /\ UNCHANGED <<data, user_data, now>>
       /\ Said(u, "remove_sub_confirm_and_delete", ev, "invalid")
  ELSE IF "remove_sub_person" \notin DOMAIN user_data[u]
  THEN /\ End(u, c)
       /\ Edit(u, ev, {})
       /\ UNCHANGED <<data, user_data, now>>
       /\ Said(u, "remove_sub_confirm_and_delete", ev, "lost")
  ELSE
    LET sub_index == IntOf(Param(ev))
        person_name == user_data[u]["remove_sub_person"]
    IN
    /\ IF person_name \notin DOMAIN people
       THEN UNCHANGED data /\ Said(u, "remove_sub_confirm_and_delete", ev, "not_found")
       ELSE IF sub_index >= Len(people[person_name].subscriptions)
       THEN UNCHANGED data /\ Said(u, "remove_sub_confirm_and_delete", ev, "index_error")
       ELSE /\ Save(RemoveSubData(data, person_name, sub_index, Today))
            /\ last' = [u |-> u, h |-> "remove_sub_confirm_and_delete", arg |-> ev.arg,
                        r |-> "removed", person |-> person_name,
                        sub |-> people[person_name].subscriptions[sub_index + 1],
                        slot_freed_msg |->
                          slot_freed_msg(data, person_name,
                                         people[person_name].subscriptions[sub_index + 1])]
    /\ user_data' = [user_data EXCEPT ![u] = Del(@, "remove_sub_person")]
    /\ End(u, c)
    /\ Edit(u, ev, {})
    /\ UNCHANGED now

remove_sub_confirm_and_delete(u, ev, c) ==
  IF ~IsIntText(Param(ev))
  THEN /\ Goto(u, c, "REMSUB_CHOOSE_SUBSCRIPTION")
       /\ Edit(u, ev, {})
       /\ UNCHANGED <<data, user_data, now>>
       /\ Said(u, "remove_sub_confirm_and_delete", ev, "invalid")
  ELSE IF "remove_sub_person" \notin DOMAIN user_data[u]
  THEN /\ End(u, c)
       /\ Edit(u, ev, {})
       /\ UNCHANGED <<data, user_data, now>>
       /\ Said(u, "remove_sub_confirm_and_delete", ev, "lost")
  ELSE
    LET sub_index == IntOf(Param(ev))
        person_name == user_data[u]["remove_sub_person"]
    IN
    /\ IF \/ person_name \notin DOMAIN people
          \/ people[person_name].subscriptions = << >>
          \/ sub_index >= Len(people[person_name].subscriptions)
       THEN UNCHANGED data /\ Said(u, "remove_sub_confirm_and_delete", ev, "not_found")
       ELSE /\ Save(RemoveSubData(data, person_name, sub_index, Today))
            /\ last' = [u |-> u, h |-> "remove_sub_confirm_and_delete", arg |-> ev.arg,
                        r |-> "removed", person |-> person_name,
                        sub |-> people[person_name].subscriptions[sub_index + 1],
                        slot_freed_msg |->
                          slot_freed_msg(data, person_name,
                                         people[person_name].subscriptions[sub_index + 1])]
    /\ user_data' = [user_data EXCEPT ![u] = Del(@, "remove_sub_person")]
    /\ End(u, c)
    /\ Edit(u, ev, {})
    /\ UNCHANGED now

(* ------------------------------------------------------------------ *)
(* /setdefaultslots, /addslot, /removeslot                              *)
(* ------------------------------------------------------------------ *)
set_default_slots(u, ev) ==
  /\ UNCHANGED <<conv, user_data, menu, now, entered>>
  /\ IF Len(ev.arg) # 2
     THEN UNCHANGED data /\ Said(u, "set_default_slots", ev, "usage")
     ELSE LET service_name_arg == ev.arg[1]
              count_str == ev.arg[2]
          IN IF service_name_arg \notin DOMAIN services
             THEN UNCHANGED data /\ Said(u, "set_default_slots", ev, "no_service")
             ELSE IF ~IsIntText(count_str)
             THEN UNCHANGED data /\ Said(u, "set_default_slots", ev, "invalid")
             ELSE IF IntOf(count_str) < 0
             THEN UNCHANGED data /\ Said(u, "set_default_slots", ev, "negative")
             ELSE /\ Save([data EXCEPT !.default_slots =
                             Put(@, service_name_arg, IntOf(count_str))])
                  /\ Said(u, "set_default_slots", ev, "set")

\* str.isalnum(): true of a non-empty text made of letters and digits only.
\* AlnumTexts lists every such text among the texts of this module; the others
\* are empty or hold a sign, a point, an underscore or another symbol ("", "#",
\* "?", "-1", "9.99", "12.99", "-0.001", "add_slot", ...).
AlnumTexts ==
  {"0", "07", "1", "2", "30", "7",
   "E", "IDLE", "Music", "Stream", "Tick", "abc", "acc1", "acc2", "ann", "bob",
   "gone", "u1", "u2", "x",
   "addslot", "cancel", "export", "income", "listpeople", "listsubs", "removeslot",
   "removesub", "setdefaultslots", "skip", "start",
   "activated", "added", "cancelled", "cb", "cmd", "empty", "exists", "invalid",
   "lost", "menu", "negative", "none", "null", "prompt", "removed", "saved", "set",
   "shown", "skipped", "text", "total", "unchanged", "unverified", "usage",
   "vanished", "view"}
IsAlnum(t) == t \in AlnumTexts

\* AddSlots writing None also over a key that exists
RECURSIVE AddSlotsOver(_, _)
AddSlotsOver(slots, keys) ==
  IF keys = << >> THEN slots
  ELSE LET slot_str == Head(keys) IN
       IF IsAlnum(slot_str)
       THEN AddSlotsOver(Put(slots, slot_str, Null), Tail(keys))
       ELSE AddSlotsOver(slots, Tail(keys))

\* the slot map after the keys of `keys` were handled one after the other
RECURSIVE AddSlots(_, _)
AddSlots(slots, keys) ==
  IF keys = << >> THEN slots
  ELSE LET slot_str == Head(keys) IN
       IF IsAlnum(slot_str) /\ slot_str \notin DOMAIN slots
       THEN AddSlots(Put(slots, slot_str, Null), Tail(keys))
       ELSE AddSlots(slots, Tail(keys))

\* added_slots, already_exist_slots and invalid_slots after the same loop
RECURSIVE AddSlotsReport(_, _)
AddSlotsReport(slots, keys) ==
  IF keys = << >> THEN [added |-> << >>, already_exist |-> << >>, invalid |-> << >>]
  ELSE LET slot_str == Head(keys) IN
       IF ~IsAlnum(slot_str)
       THEN LET rest == AddSlotsReport(slots, Tail(keys)) IN
            [rest EXCEPT !.invalid = <<slot_str>> \o @]
       ELSE IF slot_str \in DOMAIN slots
       THEN LET rest == AddSlotsReport(slots, Tail(keys)) IN
            [rest EXCEPT !.already_exist = <<slot_str>> \o @]
       ELSE LET rest == AddSlotsReport(Put(slots, slot_str, Null), Tail(keys)) IN
            [rest EXCEPT !.added = <<slot_str>> \o @]

add_slot(u, ev) ==
  /\ UNCHANGED <<conv, user_data, menu, now, entered>>
  /\ IF Len(ev.arg) < 2
     THEN UNCHANGED data /\ Said(u, "add_slot", ev, "usage")
     ELSE LET account_name_arg == ev.arg[1] IN
          IF account_name_arg \notin DOMAIN accounts
          THEN UNCHANGED data /\ Said(u, "add_slot", ev, "not_found")
          ELSE LET new == AddSlots(accounts[account_name_arg].slots, Tail(ev.arg)) IN
               /\ Save([data EXCEPT !.accounts[account_name_arg].slots = new])
               /\ last' = [u |-> u, h |-> "add_slot", arg |-> ev.arg,
                           r |-> IF new = accounts[account_name_arg].slots
                                 THEN "none_added" ELSE "added",
                           said |-> AddSlotsReport(accounts[account_name_arg].slots,
                                                   Tail(ev.arg))]

\* RemoveSlots deleting a key whoever holds it
RECURSIVE RemoveSlotsHeld(_, _)
RemoveSlotsHeld(slots, keys) ==
  IF keys = << >> THEN slots
  ELSE LET slot_str == Head(keys) IN
       IF slot_str \in DOMAIN slots
       THEN RemoveSlotsHeld(Del(slots, slot_str), Tail(keys))
       ELSE RemoveSlotsHeld(slots, Tail(keys))

\* removed_slots, not_found_slots and the slot of each occupied_slots line
\* after the same loop
RECURSIVE RemoveSlotsReport(_, _)
RemoveSlotsReport(slots, keys) ==
  IF keys = << >> THEN [removed |-> << >>, not_found |-> << >>, occupied |-> << >>]
  ELSE LET slot_str == Head(keys) IN
       IF slot_str \notin DOMAIN slots
       THEN LET rest == RemoveSlotsReport(slots, Tail(keys)) IN
            [rest EXCEPT !.not_found = <<slot_str>> \o @]
       ELSE IF slots[slot_str] # Null
       THEN LET rest == RemoveSlotsReport(slots, Tail(keys)) IN
            [rest EXCEPT !.occupied = <<slot_str>> \o @]
       ELSE LET rest == RemoveSlotsReport(Del(slots, slot_str), Tail(keys)) IN
            [rest EXCEPT !.removed = <<slot_str>> \o @]

RECURSIVE RemoveSlots(_, _)
RemoveSlots(slots, keys) ==
  IF keys = << >> THEN slots
  ELSE LET slot_str == Head(keys) IN
       IF slot_str \in DOMAIN slots /\ slots[slot_str] = Null
       THEN RemoveSlots(Del(slots, slot_str), Tail(keys))
       ELSE RemoveSlots(slots, Tail(keys))

remove_slot(u, ev) ==
  /\ UNCHANGED <<conv, user_data, menu, now, entered>>
  /\ IF Len(ev.arg) < 2
     THEN UNCHANGED data /\ Said(u, "remove_slot", ev, "usage")
     ELSE LET account_name_arg == ev.arg[1] IN
          IF account_name_arg \notin DOMAIN accounts
          THEN UNCHANGED data /\ Said(u, "remove_slot", ev, "not_found")
          ELSE LET new == RemoveSlots(accounts[account_name_arg].slots, Tail(ev.arg)) IN
               /\ Save([data EXCEPT !.accounts[account_name_arg].slots = new])
               /\ last' = [u |-> u, h |-> "remove_slot", arg |-> ev.arg,
                           r |-> IF new = accounts[account_name_arg].slots
                                 THEN "none_removed" ELSE "removed",
                           said |-> RemoveSlotsReport(accounts[account_name_arg].slots,
                                                      Tail(ev.arg))]

(* ------------------------------------------------------------------ *)
(* The startup sweep                                                    *)
(* ------------------------------------------------------------------ *)
ExpiryDays == 60
InactiveDays == 10

\* Kept with the limit taken one day early
KeptBelow(sub, t) ==
  ~IsDateText(sub.end_date) \/ DaysBetween(t, StrpDate(sub.end_date)) < ExpiryDays

\* a subscription the sweep keeps: its date does not parse, or it ended at
\* most ExpiryDays ago
Kept(sub, t) ==
  ~IsDateText(sub.end_date) \/ DaysBetween(t, StrpDate(sub.end_date)) <= ExpiryDays

\* the loop over one person's subscriptions: the accounts after the slots of
\* the dropped ones were freed
\* SweepSlots without its loop: the slots of the dropped subscriptions stay
\* occupied
SweepSlotsHeld(accs, person_name, subs, t) == accs

RECURSIVE SweepSlots(_, _, _, _)
SweepSlots(accs, person_name, subs, t) ==
  IF subs = << >> THEN accs
  ELSE LET sub == Head(subs) IN
       IF /\ ~Kept(sub, t)
          /\ sub.account \in DOMAIN accs
          /\ sub.slot \in DOMAIN accs[sub.account].slots
          /\ accs[sub.account].slots[sub.slot] = person_name
       THEN SweepSlots([accs EXCEPT ![sub.account].slots[sub.slot] = Null],
                       person_name, Tail(subs), t)
       ELSE SweepSlots(accs, person_name, Tail(subs), t)

KeptSubs(subs, t) == SelectSeq(subs, LAMBDA sub : Kept(sub, t))

\* Inactive with the limit taken one day early
InactiveFrom(new_subs, last_active, t) ==
  /\ new_subs = << >>
  /\ IsDateText(last_active)
  /\ DaysBetween(t, StrpDate(last_active)) >= InactiveDays

\* a person the sweep deletes once the subscriptions were pruned
Inactive(new_subs, last_active, t) ==
  /\ new_subs = << >>
  /\ IsDateText(last_active)
  /\ DaysBetween(t, StrpDate(last_active)) > InactiveDays

\* SweepPeople testing the list the person had before the pruning
RECURSIVE SweepPeopleStale(_, _, _)
SweepPeopleStale(d, names, t) ==
  IF names = {} THEN d
  ELSE LET person_name == CHOOSE n \in names : TRUE
           person == d.people[person_name]
           new_subs == KeptSubs(person.subscriptions, t)
           accs == SweepSlots(d.accounts, person_name, person.subscriptions, t)
           ppl == IF Inactive(person.subscriptions, person.last_active, t)
                  THEN Del(d.people, person_name)
                  ELSE [d.people EXCEPT ![person_name].subscriptions = new_subs]
       IN SweepPeopleStale([d EXCEPT !.accounts = accs, !.people = ppl],
                           names \ {person_name}, t)

\* the loop over the people, in any order: each person only changes its own
\* record and the slots it holds
RECURSIVE SweepPeople(_, _, _)
SweepPeople(d, names, t) ==
  IF names = {} THEN d
  ELSE LET person_name == CHOOSE n \in names : TRUE
           person == d.people[person_name]
           new_subs == KeptSubs(person.subscriptions, t)
           accs == SweepSlots(d.accounts, person_name, person.subscriptions, t)
           ppl == IF Inactive(new_subs, person.last_active, t)
                  THEN Del(d.people, person_name)
                  ELSE [d.people EXCEPT ![person_name].subscriptions = new_subs]
       IN SweepPeople([d EXCEPT !.accounts = accs, !.people = ppl],
                      names \ {person_name}, t)

CleanupData(d, t) == SweepPeople(d, DOMAIN d.people, t)

\* the "Freed slot .. in account .. from .." log lines of the sweep
SweepFreed(d, t) ==
  {<<ak[1], ak[2], d.accounts[ak[1]].slots[ak[2]]>> :
     ak \in {x \in UNION {{n} \X DOMAIN d.accounts[n].slots : n \in DOMAIN d.accounts} :
              /\ d.accounts[x[1]].slots[x[2]] # Null
              /\ CleanupData(d, t).accounts[x[1]].slots[x[2]] = Null}}

\* the "Removing inactive person .." log lines of the sweep
SweepRemoved(d, t) == DOMAIN d.people \ DOMAIN CleanupData(d, t).people

\* main(): the sweep runs once, when the process starts; the conversations and
\* user_data of the previous process are gone.  The messages of the previous
\* process stay in the chats, with their keyboards.
cleanup_expired_subs ==
  /\ data' = CleanupData(data, now)
  /\ conv' = [u \in Users |-> [c \in ConvSet |-> Idle]]
  /\ user_data' = [u \in Users |-> EmptyDict]
  /\ UNCHANGED <<menu, now, entered>>
  /\ last' = [u |-> "", h |-> "cleanup_expired_subs", arg |-> << >>,
              r |-> IF CleanupData(data, now) = data THEN "unchanged" ELSE "saved",
              freed |-> SweepFreed(data, now),
              removed |-> SweepRemoved(data, now),
              before |-> data, at |-> now]

\* the clock moves on within the day
Moment ==
  /\ StrfDate(now + 1) = StrfDate(now)
  /\ now' = now + 1
  /\ UNCHANGED <<data, conv, user_data, menu, entered, last>>

(* ------------------------------------------------------------------ *)
(* The updates a user can send                                          *)
(* ------------------------------------------------------------------ *)
\* texts a user types, by the question the bot asked last
TextsFor(u) ==
  (IF conv[u]["add_person_conv"] = "CHOOSE_PERSON_TO_ADD" THEN PersonTexts ELSE {})
  \cup (IF conv[u]["add_account_conv"] = "GET_ACCOUNT_DETAILS" THEN AccountTexts ELSE {})
  \cup (IF conv[u]["set_price_conv"] = "PRICE_GET_SERVICE_NAME" THEN ServiceTexts ELSE {})
  \cup (IF conv[u]["set_price_conv"] = "PRICE_GET_EMOJI" THEN EmojiTexts ELSE {})
  \cup (IF conv[u]["set_price_conv"] = "PRICE_GET_DURATION_DAYS" THEN DurationTexts ELSE {})
  \cup (IF conv[u]["set_price_conv"] = "PRICE_GET_PRICE_AMOUNT" THEN PriceTexts ELSE {})

SlotArgLists == {<<"1">>, <<"2">>, <<"1", "2">>, <<"2", "#">>}

Commands ==
  {Cmd(n, << >>) : n \in {"start", "cancel", "skip", "removesub", "listpeople",
                           "listsubs", "income", "export", "setdefaultslots"}}
  \cup {Cmd("setdefaultslots", <<s, k>>) : s \in ServiceTexts, k \in CountArgs}
  \cup {Cmd(n, <<a>> \o l) : n \in {"addslot", "removeslot"}, a \in AccountTexts,
                             l \in SlotArgLists}

\* the commands by name
Cmds == [n \in {ev.name : ev \in Commands} |-> {ev \in Commands : ev.name = n}]

OpenCount(u) == Cardinality({c \in ConvSet : conv[u][c] # Idle})

\* The updates offered to the model, d being where Dispatch sends the update:
\* the buttons on screen, the texts that answer a pending question and the
\* commands, leaving out the updates no handler accepts, an entry point beyond MaxOpen open conversations or
\* beyond MaxFlows conversations entered, and a finalization that would make a
\* subscription list longer than MaxSubs.
Wanted(u, d) ==
  /\ d.h # None
  /\ (d.c # None /\ conv[u][d.c] = Idle) =>
       OpenCount(u) < MaxOpen /\ entered[u] < MaxFlows
  /\ d.h = "add_sub_duration_chosen" =>
       LET p == Get(user_data[u], "addsub_person", Null) IN
       p \in DOMAIN people => Len(people[p].subscriptions) < MaxSubs

\* the buttons on u's screen whose callback data begins with one of `names`
Buttons(u, names) ==
  {b \in MainMenu : b.name \in names} \cup {b \in ScreenOf(menu[u]) : b.name \in names}
AnyButton(u) == MainMenu \cup ScreenOf(menu[u])
Texts(u) == {Text(t) : t \in TextsFor(u)}

\* On_h(u): user u sends an update the model offers, Dispatch hands it to
\* handler h, and h runs on it.  Each ranges over the updates of the shape h is registered
\* for, in the conversation state it is registered for.
On_start(u) ==
  \E ev \in Cmds["start"] :
    LET d == Dispatch(u, ev) IN
    d.h = "start" /\ Wanted(u, d) /\ start(u, ev, d.c)

On_cancel(u) ==
  \E ev \in Cmds["cancel"] :
    LET d == Dispatch(u, ev) IN
    d.h = "cancel" /\ Wanted(u, d) /\ cancel(u, ev, d.c)

On_main_menu_generic_handler(u) ==
  \E ev \in Buttons(u, {"main_menu_from_price_set_end"}) :
    LET d == Dispatch(u, ev) IN
    d.h = "main_menu_generic_handler" /\ Wanted(u, d) /\ main_menu_generic_handler(u, ev, d.c)

On_ReadOnly(u) ==
  \E ev \in Buttons(u, {"list_people_cmd", "list_subs_cmd"})
            \cup Cmds["listpeople"] \cup Cmds["listsubs"] \cup Cmds["export"] :
    LET d == Dispatch(u, ev) IN
    /\ d.h \in {"handle_list_people_button", "handle_list_subs_button", "list_people",
                "list_subscriptions", "export_data"}
    /\ Wanted(u, d)
    /\ ReadOnly(u, ev, d.h)

On_calculate_income(u) ==
  \E ev \in Cmds["income"] :
    LET d == Dispatch(u, ev) IN
    d.h = "calculate_income" /\ Wanted(u, d) /\ calculate_income(u, ev)

On_add_person_start_cb(u) ==
  /\ conv[u]["add_person_conv"] = Idle
  /\ \E ev \in Buttons(u, {"add_person_start"}) :
       LET d == Dispatch(u, ev) IN
       d.h = "add_person_start_cb" /\ Wanted(u, d) /\ add_person_start_cb(u, ev, d.c)

On_add_person_receive(u) ==
  /\ conv[u]["add_person_conv"] = "CHOOSE_PERSON_TO_ADD"
  /\ \E ev \in Texts(u) :
       LET d == Dispatch(u, ev) IN
       d.h = "add_person_receive" /\ Wanted(u, d) /\ add_person_receive(u, ev, d.c)

On_remove_person_start_cb(u) ==
  /\ conv[u]["remove_person_conv"] = Idle
  /\ \E ev \in Buttons(u, {"remove_person_start"}) :
       LET d == Dispatch(u, ev) IN
       d.h = "remove_person_start_cb" /\ Wanted(u, d) /\ remove_person_start_cb(u, ev, d.c)

On_remove_person_confirm(u) ==
  /\ conv[u]["remove_person_conv"] = "CHOOSE_PERSON_TO_REMOVE"
  /\ \E ev \in Buttons(u, PatternNames("^remove_person_.*")) :
       LET d == Dispatch(u, ev) IN
       d.h = "remove_person_confirm" /\ Wanted(u, d) /\ remove_person_confirm(u, ev, d.c)

On_add_account_start_cb(u) ==
  /\ conv[u]["add_account_conv"] = Idle
  /\ \E ev \in Buttons(u, {"add_account_start"}) :
       LET d == Dispatch(u, ev) IN
       d.h = "add_account_start_cb" /\ Wanted(u, d) /\ add_account_start_cb(u, ev, d.c)

On_add_account_get_details(u) ==
  /\ conv[u]["add_account_conv"] = "GET_ACCOUNT_DETAILS"
  /\ \E ev \in Texts(u) :
       LET d == Dispatch(u, ev) IN
       d.h = "add_account_get_details" /\ Wanted(u, d) /\ add_account_get_details(u, ev, d.c)

On_add_account_set_service(u) ==
  /\ conv[u]["add_account_conv"] = "GET_ACCOUNT_SERVICE"
  /\ \E ev \in Buttons(u, PatternNames("^addacc_service_.*")) :
       LET d == Dispatch(u, ev) IN
       d.h = "add_account_set_service" /\ Wanted(u, d) /\ add_account_set_service(u, ev, d.c)

On_remove_account_start_cb(u) ==
  /\ conv[u]["remove_account_conv"] = Idle
  /\ \E ev \in Buttons(u, {"remove_account_start"}) :
       LET d == Dispatch(u, ev) IN
       d.h = "remove_account_start_cb" /\ Wanted(u, d) /\ remove_account_start_cb(u, ev, d.c)

On_remove_account_confirm(u) ==
  /\ conv[u]["remove_account_conv"] = "CHOOSE_ACCOUNT_TO_REMOVE"
  /\ \E ev \in Buttons(u, PatternNames("^remove_account_.*")) :
       LET d == Dispatch(u, ev) IN
       d.h = "remove_account_confirm" /\ Wanted(u, d) /\ remove_account_confirm(u, ev, d.c)

On_add_sub_start_cb(u) ==
  /\ conv[u]["add_sub_conv"] = Idle
  /\ \E ev \in Buttons(u, {"add_sub_start"}) :
       LET d == Dispatch(u, ev) IN
       d.h = "add_sub_start_cb" /\ Wanted(u, d) /\ add_sub_start_cb(u, ev, d.c)

On_add_sub_person_chosen(u) ==
  /\ conv[u]["add_sub_conv"] = "SUB_CHOOSE_PERSON"
  /\ \E ev \in Buttons(u, PatternNames("^addsub_person_.*")) :
       LET d == Dispatch(u, ev) IN
       d.h = "add_sub_person_chosen" /\ Wanted(u, d) /\ add_sub_person_chosen(u, ev, d.c)

On_add_sub_service_chosen(u) ==
  /\ conv[u]["add_sub_conv"] = "SUB_CHOOSE_SERVICE"
  /\ \E ev \in Buttons(u, PatternNames("^addsub_service_.*")) :
       LET d == Dispatch(u, ev) IN
       d.h = "add_sub_service_chosen" /\ Wanted(u, d) /\ add_sub_service_chosen(u, ev, d.c)

On_add_sub_account_chosen(u) ==
  /\ conv[u]["add_sub_conv"] = "SUB_CHOOSE_ACCOUNT"
  /\ \E ev \in Buttons(u, PatternNames("^addsub_account_.*")) :
       LET d == Dispatch(u, ev) IN
       d.h = "add_sub_account_chosen" /\ Wanted(u, d) /\ add_sub_account_chosen(u, ev, d.c)

On_add_sub_slot_chosen(u) ==
  /\ conv[u]["add_sub_conv"] = "SUB_CHOOSE_SLOT"
  /\ \E ev \in Buttons(u, PatternNames("^addsub_slot_.*")) :
       LET d == Dispatch(u, ev) IN
       d.h = "add_sub_slot_chosen" /\ Wanted(u, d) /\ add_sub_slot_chosen(u, ev, d.c)

On_add_sub_duration_chosen(u) ==
  /\ conv[u]["add_sub_conv"] = "SUB_CHOOSE_DURATION"
  /\ \E ev \in Buttons(u, PatternNames("^addsub_duration_.*")) :
       LET d == Dispatch(u, ev) IN
       d.h = "add_sub_duration_chosen" /\ Wanted(u, d) /\ add_sub_duration_chosen(u, ev, d.c)

On_set_prices_start_cb(u) ==
  \E ev \in Buttons(u, PatternNames("set_prices_start")) :
    LET d == Dispatch(u, ev) IN
    d.h = "set_prices_start_cb" /\ Wanted(u, d) /\ set_prices_start_cb(u, ev, d.c)

On_price_main_menu_handler(u) ==
  /\ conv[u]["set_price_conv"] = "PRICE_MAIN_MENU"
  /\ \E ev \in AnyButton(u) :
       LET d == Dispatch(u, ev) IN
       d.h = "price_main_menu_handler" /\ Wanted(u, d) /\ price_main_menu_handler(u, ev, d.c)

On_price_get_service_name_receive(u) ==
  /\ conv[u]["set_price_conv"] = "PRICE_GET_SERVICE_NAME"
  /\ \E ev \in Texts(u) :
       LET d == Dispatch(u, ev) IN
       d.h = "price_get_service_name_receive" /\ Wanted(u, d) /\ price_get_service_name_receive(u, ev, d.c)

On_price_get_emoji_receive(u) ==
  /\ conv[u]["set_price_conv"] = "PRICE_GET_EMOJI"
  /\ \E ev \in Texts(u) :
       LET d == Dispatch(u, ev) IN
       d.h = "price_get_emoji_receive" /\ Wanted(u, d) /\ price_get_emoji_receive(u, ev, d.c)

On_price_skip_emoji(u) ==
  /\ conv[u]["set_price_conv"] = "PRICE_GET_EMOJI"
  /\ \E ev \in Cmds["skip"] :
       LET d == Dispatch(u, ev) IN
       d.h = "price_skip_emoji" /\ Wanted(u, d) /\ price_skip_emoji(u, ev, d.c)

On_price_get_duration_days_receive(u) ==
  /\ conv[u]["set_price_conv"] = "PRICE_GET_DURATION_DAYS"
  /\ \E ev \in Texts(u) :
       LET d == Dispatch(u, ev) IN
       d.h = "price_get_duration_days_receive" /\ Wanted(u, d) /\ price_get_duration_days_receive(u, ev, d.c)

On_price_get_amount_receive(u) ==
  /\ conv[u]["set_price_conv"] = "PRICE_GET_PRICE_AMOUNT"
  /\ \E ev \in Texts(u) :
       LET d == Dispatch(u, ev) IN
       d.h = "price_get_amount_receive" /\ Wanted(u, d) /\ price_get_amount_receive(u, ev, d.c)

On_price_remove_select_service_handler(u) ==
  /\ conv[u]["set_price_conv"] = "PRICE_REMOVE_SELECT_SERVICE"
  /\ \E ev \in Buttons(u, PatternNames("^remprice_svc_.*")) :
       LET d == Dispatch(u, ev) IN
       d.h = "price_remove_select_service_handler" /\ Wanted(u, d) /\ price_remove_select_service_handler(u, ev, d.c)

On_price_remove_select_duration_handler(u) ==
  /\ conv[u]["set_price_conv"] = "PRICE_REMOVE_SELECT_DURATION"
  /\ \E ev \in Buttons(u, PatternNames("^remprice_dur_.*")) :
       LET d == Dispatch(u, ev) IN
       d.h = "price_remove_select_duration_handler" /\ Wanted(u, d) /\ price_remove_select_duration_handler(u, ev, d.c)

On_remove_sub_start_command(u) ==
  /\ conv[u]["remove_sub_conv"] = Idle
  /\ \E ev \in Cmds["removesub"] :
       LET d == Dispatch(u, ev) IN
       d.h = "remove_sub_start_command" /\ Wanted(u, d) /\ remove_sub_start_command(u, ev, d.c)

On_remove_sub_person_selected(u) ==
  /\ conv[u]["remove_sub_conv"] = "REMSUB_CHOOSE_PERSON"
  /\ \E ev \in Buttons(u, PatternNames("^remsub_person_.*")) :
       LET d == Dispatch(u, ev) IN
       d.h = "remove_sub_person_selected" /\ Wanted(u, d) /\ remove_sub_person_selected(u, ev, d.c)

On_remove_sub_confirm_and_delete(u) ==
  /\ conv[u]["remove_sub_conv"] = "REMSUB_CHOOSE_SUBSCRIPTION"
  /\ \E ev \in Buttons(u, PatternNames("^remsub_confirm_.*")) :
       LET d == Dispatch(u, ev) IN
       d.h = "remove_sub_confirm_and_delete" /\ Wanted(u, d) /\ remove_sub_confirm_and_delete(u, ev, d.c)

On_set_default_slots(u) ==
  \E ev \in Cmds["setdefaultslots"] :
    LET d == Dispatch(u, ev) IN
    d.h = "set_default_slots" /\ Wanted(u, d) /\ set_default_slots(u, ev)

On_add_slot(u) ==
  \E ev \in Cmds["addslot"] :
    LET d == Dispatch(u, ev) IN
    d.h = "add_slot" /\ Wanted(u, d) /\ add_slot(u, ev)

On_remove_slot(u) ==
  \E ev \in Cmds["removeslot"] :
    LET d == Dispatch(u, ev) IN
    d.h = "remove_slot" /\ Wanted(u, d) /\ remove_slot(u, ev)

\* An entry point pressed or typed while another conversation of the user is
\* pending: no handler of the pending conversation accepts the update, and
\* the application hands it to the next ConversationHandler, which enters.
Reenter(u, ev, h) ==
  LET d == Dispatch(u, ev) IN
  /\ OpenCount(u) >= MaxOpen
  /\ OpenCount(u) < MaxPending
  /\ entered[u] < MaxFlows
  /\ d.h = h /\ d.c # None /\ conv[u][d.c] = Idle

Also_add_person_start_cb(u) ==
  \E ev \in Buttons(u, {"add_person_start"}) :
    Reenter(u, ev, "add_person_start_cb") /\ add_person_start_cb(u, ev, Dispatch(u, ev).c)

Also_remove_person_start_cb(u) ==
  \E ev \in Buttons(u, {"remove_person_start"}) :
    Reenter(u, ev, "remove_person_start_cb") /\ remove_person_start_cb(u, ev, Dispatch(u, ev).c)

Also_add_account_start_cb(u) ==
  \E ev \in Buttons(u, {"add_account_start"}) :
    Reenter(u, ev, "add_account_start_cb") /\ add_account_start_cb(u, ev, Dispatch(u, ev).c)

Also_remove_account_start_cb(u) ==
  \E ev \in Buttons(u, {"remove_account_start"}) :
    Reenter(u, ev, "remove_account_start_cb") /\ remove_account_start_cb(u, ev, Dispatch(u, ev).c)

Also_add_sub_start_cb(u) ==
  \E ev \in Buttons(u, {"add_sub_start"}) :
    Reenter(u, ev, "add_sub_start_cb") /\ add_sub_start_cb(u, ev, Dispatch(u, ev).c)

Also_set_prices_start_cb(u) ==
  \E ev \in Buttons(u, {"set_prices_start"}) :
    Reenter(u, ev, "set_prices_start_cb") /\ set_prices_start_cb(u, ev, Dispatch(u, ev).c)

Also_remove_sub_start_command(u) ==
  \E ev \in Cmds["removesub"] :
    Reenter(u, ev, "remove_sub_start_command") /\ remove_sub_start_command(u, ev, Dispatch(u, ev).c)

\* time passes: the clock jumps to the morning of a later day
Tick ==
  /\ \E day \in ClockDays : StrpDate(day) > now /\ now' = StrpDate(day)
  /\ UNCHANGED <<data, conv, user_data, menu, entered>>
  /\ last' = [u |-> "", h |-> "Tick", arg |-> << >>, r |-> ""]

(* ------------------------------------------------------------------ *)
(* Specifications                                                       *)
(* ------------------------------------------------------------------ *)
\* A snapshot the bot has written: one service with one price and a default
\* slot count, one account of that service with the slots slot_keys, all
\* empty, and two people without subscriptions.
Stock(slot_keys) ==
  [people |-> [n \in {"ann", "bob"} |-> [subscriptions |-> << >>, last_active |-> StrfDate(0)]],
   accounts |-> [a \in {"acc1"} |->
                   [service |-> "Stream", slots |-> [k \in slot_keys |-> Null]]],
   services |-> [s \in {"Stream"} |->
                   [emoji |-> DefaultEmoji, durations |-> [k \in {"30"} |-> 999]]],
   default_slots |-> [s \in {"Stream"} |-> 2]]

\* the process starts on snapshot d
StartOn(d) ==
  /\ data = d
  /\ conv = [u \in Users |-> [c \in ConvSet |-> Idle]]
  /\ user_data = [u \in Users |-> EmptyDict]
  /\ menu = [u \in Users |-> EmptyBag]
  /\ now = 0
  /\ entered = [u \in Users |-> 0]
  /\ last = NoLast

AddSubFlow(u) ==
  \/ On_add_sub_start_cb(u)
  \/ On_add_sub_person_chosen(u)
  \/ On_add_sub_service_chosen(u)
  \/ On_add_sub_account_chosen(u)
  \/ On_add_sub_slot_chosen(u)
  \/ On_add_sub_duration_chosen(u)

RemoveSubFlow(u) ==
  \/ On_remove_sub_start_command(u)
  \/ On_remove_sub_person_selected(u)
  \/ On_remove_sub_confirm_and_delete(u)

RemovePersonFlow(u) ==
  \/ On_remove_person_start_cb(u)
  \/ On_remove_person_confirm(u)

AddAccountFlow(u) ==
  \/ On_add_account_start_cb(u)
  \/ On_add_account_get_details(u)
  \/ On_add_account_set_service(u)

AddPersonFlow(u) ==
  \/ On_add_person_start_cb(u)
  \/ On_add_person_receive(u)

\* the entry points taken while another conversation is pending
SecondFlow(u) ==
  \/ Also_add_person_start_cb(u)
  \/ Also_remove_person_start_cb(u)
  \/ Also_add_account_start_cb(u)
  \/ Also_remove_account_start_cb(u)
  \/ Also_add_sub_start_cb(u)
  \/ Also_set_prices_start_cb(u)
  \/ Also_remove_sub_start_command(u)

RemoveAccountFlow(u) ==
  \/ On_remove_account_start_cb(u)
  \/ On_remove_account_confirm(u)

PriceFlow(u) ==
  \/ On_set_prices_start_cb(u)
  \/ On_price_main_menu_handler(u)
  \/ On_price_get_service_name_receive(u)
  \/ On_price_get_emoji_receive(u)
  \/ On_price_skip_emoji(u)
  \/ On_price_get_duration_days_receive(u)
  \/ On_price_get_amount_receive(u)
  \/ On_price_remove_select_service_handler(u)
  \/ On_price_remove_select_duration_handler(u)

\* Subscriptions: two users add and remove subscriptions and remove people, on
\* an account with two slots.
InitSub == StartOn(Stock({"1", "2"}))
NextSub ==
  \E u \in Users : AddSubFlow(u) \/ RemoveSubFlow(u) \/ RemovePersonFlow(u)
SpecSub == InitSub /\ [][NextSub]_vars

\* The sweep: one user adds subscriptions and another removes people on an
\* account with one slot, time passes, within the day and to later days, and
\* the process restarts.
InitReap == StartOn(Stock({"1"}))
NextReap ==
  \/ AddSubFlow("u1") \/ RemovePersonFlow("u2")
  \/ cleanup_expired_subs
  \/ Tick
  \/ Moment
SpecReap == InitReap /\ [][NextReap]_vars

\* Prices: two users add subscriptions and edit the price catalog, on an
\* account with one slot.
InitPrice == StartOn(Stock({"1"}))
NextPrice ==
  \E u \in Users : AddSubFlow(u) \/ PriceFlow(u)
SpecPrice == InitPrice /\ [][NextPrice]_vars

\* Accounts: two users add accounts and subscriptions, starting without
\* accounts.
InitAcct == StartOn([Stock({}) EXCEPT !.accounts = EmptyDict])
NextAcct ==
  \E u \in Users : AddSubFlow(u) \/ AddAccountFlow(u)
SpecAcct == InitAcct /\ [][NextAcct]_vars

\* Removing accounts: two users add and remove subscriptions and remove
\* people and accounts, on an account with one slot.
InitRemAcct == StartOn(Stock({"1"}))
NextRemAcct ==
  \E u \in Users : \/ AddSubFlow(u) \/ RemoveSubFlow(u)
                   \/ RemovePersonFlow(u) \/ RemoveAccountFlow(u)
SpecRemAcct == InitRemAcct /\ [][NextRemAcct]_vars

\* Sessions: one user goes through every conversation, cancels, restarts with
\* /start and enters a conversation while another is pending.
InitSession == StartOn(Stock({"1"}))
NextSession ==
  \/ AddPersonFlow("u1") \/ RemovePersonFlow("u1")
  \/ AddAccountFlow("u1") \/ RemoveAccountFlow("u1")
  \/ AddSubFlow("u1") \/ PriceFlow("u1") \/ RemoveSubFlow("u1")
  \/ SecondFlow("u1")
  \/ On_cancel("u1") \/ On_start("u1")
SpecSession == InitSession /\ [][NextSession]_vars

\* A new installation: one user starts on the snapshot load_data() writes when
\* there is no data file, adds people, accounts and prices, opens the other
\* conversations on the empty collections, and sends the slot commands.
NextFresh ==
  \/ AddPersonFlow("u1") \/ AddAccountFlow("u1") \/ PriceFlow("u1")
  \/ On_add_sub_start_cb("u1") \/ On_remove_person_start_cb("u1")
  \/ On_remove_account_start_cb("u1") \/ On_remove_sub_start_command("u1")
  \/ On_set_default_slots("u1") \/ On_add_slot("u1") \/ On_remove_slot("u1")
  \/ On_cancel("u1") \/ On_start("u1")
SpecFresh == Init /\ [][NextFresh]_vars

\* The sweep on the data files it may find: the dates lie around the two
\* limits or do not parse, a subscription names an account that is gone or a
\* slot that somebody else or nobody holds, and a person may hold a slot twice.
EndDates == {SweepDay - ExpiryDays - 1, SweepDay - ExpiryDays,
             SweepDay - ExpiryDays + 1, BadDate}
ActiveDates == {SweepDay - InactiveDays - 1, SweepDay - InactiveDays,
                SweepDay - InactiveDays + 1}
SweepSub(a, k, e) ==
  [service |-> "Stream", account |-> a, slot |-> k, duration |-> 30,
   end_date |-> e, price |-> 999]
SweepSubs ==
  {SweepSub("acc1", k, e) : k \in {"1", "2"}, e \in EndDates}
  \cup {SweepSub("gone", "1", e) : e \in EndDates}
SweepLists ==
  {<< >>} \cup {<<x>> : x \in SweepSubs} \cup {<<x, y>> : x \in SweepSubs, y \in SweepSubs}
SweepSnapshots ==
  {[people |-> ("ann" :> [subscriptions |-> l, last_active |-> la])
               @@ ("bob" :> [subscriptions |-> m, last_active |-> lb]),
    accounts |-> ("acc1" :> [service |-> "Stream", slots |-> ("1" :> o1) @@ ("2" :> o2)]),
    services |-> Stock({}).services,
    default_slots |-> Stock({}).default_slots] :
     l \in SweepLists,
     m \in {<< >>} \cup {<<SweepSub("acc1", "1", e)>> : e \in EndDates},
     la \in ActiveDates, lb \in {SweepDay - InactiveDays - 1, BadDate},
     o1 \in {Null, "ann", "bob"}, o2 \in {Null, "ann"}}

InitSweep ==
  /\ data \in SweepSnapshots
  /\ conv = [u \in Users |-> [c \in ConvSet |-> Idle]]
  /\ user_data = [u \in Users |-> EmptyDict]
  /\ menu = [u \in Users |-> EmptyBag]
  /\ now = StrpDate(SweepDay)
  /\ entered = [u \in Users |-> 0]
  /\ last = NoLast
NextSweep == cleanup_expired_subs \/ Moment
SpecSweep == InitSweep /\ [][NextSweep]_vars

\* Slots: one user adds and removes subscriptions and sends /addslot and
\* /removeslot for account acc1, next to a second account.
InitSlots ==
  StartOn([Stock({"1"}) EXCEPT
             !.accounts = @ @@ ("acc2" :> [service |-> "Stream", slots |-> ("1" :> Null)])])
NextSlots ==
  \/ AddSubFlow("u1") \/ RemoveSubFlow("u1")
  \/ On_add_slot("u1") \/ On_remove_slot("u1")
SpecSlots == InitSlots /\ [][NextSlots]_vars

\* Income: one user adds subscriptions and asks for the income while another
\* sets and removes prices.
InitIncome == StartOn(Stock({"1", "2"}))
NextIncome ==
  \/ AddSubFlow("u1") \/ On_calculate_income("u1")
  \/ PriceFlow("u2")
SpecIncome == InitIncome /\ [][NextIncome]_vars

\* Removing subscriptions: ann holds both slots of the account, and two
\* users remove subscriptions and people.
InitRemSub ==
  StartOn([Stock({}) EXCEPT
             !.accounts["acc1"].slots = ("1" :> "ann") @@ ("2" :> "ann"),
             !.people["ann"].subscriptions =
               <<NewSubscription(Stock({}), "Stream", "acc1", "1", 30, 0),
                 NewSubscription(Stock({}), "Stream", "acc1", "2", 30, 0)>>])
NextRemSub ==
  \E u \in Users : RemoveSubFlow(u) \/ RemovePersonFlow(u)
SpecRemSub == InitRemSub /\ [][NextRemSub]_vars

\* time passes until the subscriptions of the first day are overdue
Lapse == Tick /\ now' = StrpDate(LongAfter)

\* Occupancy: one user adds and removes subscriptions and removes people,
\* another adds subscriptions, on an account with one slot; time passes and
\* the process restarts.
NextHold ==
  \/ AddSubFlow("u1") \/ RemoveSubFlow("u1") \/ RemovePersonFlow("u1")
  \/ AddSubFlow("u2")
  \/ cleanup_expired_subs
  \/ Lapse
SpecHold == InitReap /\ [][NextHold]_vars

\* Two services: two users add subscriptions and add and remove accounts,
\* starting with the services Stream and Music and without accounts.
InitSvc ==
  StartOn([Stock({}) EXCEPT
             !.accounts = EmptyDict,
             !.services = @ @@ ("Music" :> [emoji |-> DefaultEmoji, durations |-> ("30" :> 499)]),
             !.default_slots = ("Stream" :> 1) @@ ("Music" :> 1)])
NextSvc ==
  \E u \in Users : AddSubFlow(u) \/ AddAccountFlow(u) \/ RemoveAccountFlow(u)
SpecSvc == InitSvc /\ [][NextSvc]_vars

\* People: two users add and remove people and add subscriptions, on an
\* account with one slot.
NextFolk ==
  \E u \in Users : AddPersonFlow(u) \/ RemovePersonFlow(u) \/ AddSubFlow(u)
SpecFolk == InitReap /\ [][NextFolk]_vars

\* Two sessions: two users add subscriptions, cancel and restart with /start.
InitPair == StartOn(Stock({"1", "2"}))
NextPair ==
  \E u \in Users : AddSubFlow(u) \/ On_cancel(u) \/ On_start(u)
SpecPair == InitPair /\ [][NextPair]_vars

(* ------------------------------------------------------------------ *)
(* Properties                                                           *)
(* ------------------------------------------------------------------ *)
\* the positions of the subscriptions of person p on slot s of account a
SubsOn(p, a, s) ==
  {i \in 1..Len(people[p].subscriptions) :
     people[p].subscriptions[i].account = a /\ people[p].subscriptions[i].slot = s}

\* the slots of the snapshot, as <<account, slot>>
AllSlots == UNION {{a} \X DOMAIN accounts[a].slots : a \in DOMAIN accounts}

\* C1: in every snapshot, the occupant of an occupied slot is a person who has
\* exactly one subscription with that account and that slot.
C1_OccupiedSlotHasOneSubscription ==
  \A as \in AllSlots :
    LET p == accounts[as[1]].slots[as[2]] IN
    p # Null => p \in DOMAIN people /\ Cardinality(SubsOn(p, as[1], as[2])) = 1

\* C2: in every snapshot, at most one person has subscriptions on a given
\* account and slot.
C2_OneHolderPerSlot ==
  \A as \in AllSlots :
    Cardinality({p \in DOMAIN people : SubsOn(p, as[1], as[2]) # {}}) <= 1

\* C3: a finalization of Add Subscription whose chosen slot is occupied in the
\* snapshot it loads leaves the snapshot as it is.
C3_CommitRefusesOccupiedSlot ==
  [][\A u \in Users :
       LET account_name == Get(user_data[u], "addsub_account", Null)
           slot_num_str == Get(user_data[u], "addsub_slot", Null)
       IN (/\ last'.h = "add_sub_duration_chosen"
           /\ last'.u = u
           /\ <<account_name, slot_num_str>> \in AllSlots
           /\ accounts[account_name].slots[slot_num_str] # Null)
          => data' = data]_vars

\* C4: a finalization of Add Subscription whose service has no price for the
\* chosen duration in the snapshot it loads creates no subscription and
\* assigns no slot: it leaves the snapshot as it is.
C4_CommitRefusesMissingPrice ==
  [][\A u \in Users :
       (/\ last'.h = "add_sub_duration_chosen"
        /\ last'.u = u
        /\ IsIntText(last'.arg[1])
        /\ StrOf(IntOf(last'.arg[1])) \notin
             DOMAIN DurationsOf(data, Get(user_data[u], "addsub_service", Null)))
       => data' = data]_vars

\* C5: in every snapshot, the occupant of a slot is empty or the name of a
\* person of the snapshot.
C5_OccupantIsAPerson ==
  \A as \in AllSlots :
    accounts[as[1]].slots[as[2]] = Null \/ accounts[as[1]].slots[as[2]] \in DOMAIN people

\* the sweep has just deleted a person and freed a slot that person held
C5_SweepDeletedAHolder ==
  /\ last.h = "cleanup_expired_subs"
  /\ \E f \in last.freed :
       /\ f[3] \in last.removed
       /\ f[3] \notin DOMAIN people
       /\ accounts[f[1]].slots[f[2]] = Null

\* C6: a step of Add Account leaves every account that exists as it is: its
\* service and its slots with their occupants.
C6_AddAccountKeepsExistingAccounts ==
  [][last'.h \in {"add_account_get_details", "add_account_set_service"}
       => \A a \in DOMAIN accounts :
            a \in DOMAIN data'.accounts /\ data'.accounts[a] = accounts[a]]_vars

\* C7: a finalization of Add Subscription that succeeds assigns the slot to
\* the person, appends one subscription with the chosen service, account, slot
\* and duration, the end date today + duration and the catalog's price of the
\* service and duration, sets the person's last_active to today, and changes
\* nothing else.
C7_CommitEffect ==
  [][\A u \in Users :
       (/\ last'.h = "add_sub_duration_chosen"
        /\ last'.u = u
        /\ last'.r = "activated")
       => LET person_name == Get(user_data[u], "addsub_person", Null)
              service_name == Get(user_data[u], "addsub_service", Null)
              account_name == Get(user_data[u], "addsub_account", Null)
              slot_num_str == Get(user_data[u], "addsub_slot", Null)
              duration_days == IntOf(last'.arg[1])
              old == IF person_name \in DOMAIN people
                     THEN people[person_name].subscriptions ELSE << >>
              new == data'.people[person_name].subscriptions
          IN /\ data'.accounts = [accounts EXCEPT ![account_name].slots[slot_num_str] = person_name]
             /\ DOMAIN data'.people = DOMAIN people \cup {person_name}
             /\ \A q \in DOMAIN people \ {person_name} : data'.people[q] = people[q]
             /\ data'.people[person_name].last_active = Today
             /\ Len(new) = Len(old) + 1
             /\ \A i \in 1..Len(old) : new[i] = old[i]
             /\ new[Len(new)].service = service_name
             /\ new[Len(new)].account = account_name
             /\ new[Len(new)].slot = slot_num_str
             /\ new[Len(new)].duration = duration_days
             /\ new[Len(new)].end_date = Today + duration_days
             /\ StrOf(duration_days) \in DOMAIN DurationsOf(data, service_name)
             /\ new[Len(new)].price = DurationsOf(data, service_name)[StrOf(duration_days)]
             /\ data'.services = services
             /\ data'.default_slots = data.default_slots]_vars

\* C8: a step that sets or removes a price leaves every subscription as it
\* is, and no step changes the price stored in a subscription.
C8_PriceFreeze ==
  [][/\ last'.h \in {"price_get_amount_receive", "price_remove_select_duration_handler"}
          => data'.people = people
     /\ \A p \in DOMAIN people :
          /\ p \in DOMAIN data'.people
          /\ Len(data'.people[p].subscriptions) >= Len(people[p].subscriptions)
          /\ \A i \in 1..Len(people[p].subscriptions) :
               data'.people[p].subscriptions[i].price = people[p].subscriptions[i].price]_vars

\* a price was just set, and a subscription of that service and duration
\* keeps the price it was created with, which is no longer the catalog's
C8_StoredPriceDiffers ==
  /\ last.h = "price_get_amount_receive"
  /\ last.r = "price_set"
  /\ \E p \in DOMAIN people : \E i \in 1..Len(people[p].subscriptions) :
       LET sub == people[p].subscriptions[i]
           catalog == Get(DurationsOf(data, sub.service), StrOf(sub.duration), NoPrice)
       IN /\ sub.price # NoPrice
          /\ catalog # NoPrice
          /\ sub.price # catalog

\* C9: removing the subscription at an index of a person removes that entry
\* and keeps the others in order, sets the person's last_active to today,
\* empties the entry's slot if and only if the person is its occupant, and
\* changes nothing else.
C9_RemoveSubscriptionEffect ==
  [][(last'.h = "remove_sub_confirm_and_delete" /\ last'.r = "removed")
       => LET p == last'.person
              i == IntOf(last'.arg[1]) + 1
              old == people[p].subscriptions
              new == data'.people[p].subscriptions
              sub == old[i]
              held == /\ <<sub.account, sub.slot>> \in AllSlots
                      /\ accounts[sub.account].slots[sub.slot] = p
          IN /\ DOMAIN data'.people = DOMAIN people
             /\ \A q \in DOMAIN people \ {p} : data'.people[q] = people[q]
             /\ Len(new) = Len(old) - 1
             /\ \A j \in 1..Len(new) : new[j] = IF j < i THEN old[j] ELSE old[j + 1]
             /\ data'.people[p].last_active = Today
             /\ data'.accounts = IF held
                                 THEN [accounts EXCEPT ![sub.account].slots[sub.slot] = Null]
                                 ELSE accounts
             /\ data'.services = services
             /\ data'.default_slots = data.default_slots]_vars

\* a subscription was just removed on a later day than the day it was
\* committed on, and its slot is held by another person: the slot keeps that
\* occupant and the person's last_active is the day of the removal
C9_OthersSlotKeptOnLaterDay ==
  /\ last.h = "remove_sub_confirm_and_delete"
  /\ last.r = "removed"
  /\ last.slot_freed_msg = "not_held"
  /\ <<last.sub.account, last.sub.slot>> \in AllSlots
  /\ accounts[last.sub.account].slots[last.sub.slot] \notin {Null, last.person}
  /\ last.sub.end_date - last.sub.duration < Today
  /\ people[last.person].last_active = Today

\* C10: removing a person deletes the person's record and empties every slot
\* the person holds; the slots of the others, the other people and the rest
\* of the snapshot stay as they are.
C10_RemovePersonCascades ==
  [][(last'.h = "remove_person_confirm" /\ last'.r = "removed")
       => LET name == last'.person IN
          /\ data'.people = Del(people, name)
          /\ name \notin DOMAIN data'.people
          /\ DOMAIN data'.accounts = DOMAIN accounts
          /\ \A a \in DOMAIN accounts :
               /\ data'.accounts[a].service = accounts[a].service
               /\ DOMAIN data'.accounts[a].slots = DOMAIN accounts[a].slots
               /\ \A k \in DOMAIN accounts[a].slots :
                    data'.accounts[a].slots[k] =
                      IF accounts[a].slots[k] = name THEN Null ELSE accounts[a].slots[k]
          /\ data'.services = services
          /\ data'.default_slots = data.default_slots]_vars

\* a person who held a slot was just removed while another person holds a
\* slot: the first slot is empty, the other keeps its occupant
C10_CascadeSparesOthers ==
  /\ last.h = "remove_person_confirm"
  /\ last.r = "removed"
  /\ \E f \in last.freed : accounts[f[1]].slots[f[2]] = Null
  /\ last.person \notin DOMAIN people
  /\ \E as \in AllSlots : accounts[as[1]].slots[as[2]] \in DOMAIN people

\* the account a Remove Account confirmation names
RemovedAccount(l) == IF l.arg = << >> THEN "start" ELSE l.arg[1]

\* C11: a confirmation of Remove Account on an account that a subscription of
\* some person references, in the snapshot the confirmation loads, is refused
\* and leaves the snapshot as it is.
C11_RemoveAccountRefusedWithSubscriptions ==
  [][(/\ last'.h = "remove_account_confirm"
      /\ RemovedAccount(last') \in DOMAIN accounts
      /\ \E p \in DOMAIN people : \E i \in 1..Len(people[p].subscriptions) :
           people[p].subscriptions[i].account = RemovedAccount(last'))
       => last'.r = "active_subs" /\ data' = data]_vars

\* a Remove Account confirmation was just refused on an account without an
\* occupied slot that a subscription still references
C11_RefusedWithoutOccupant ==
  /\ last.h = "remove_account_confirm"
  /\ last.r = "active_subs"
  /\ RemovedAccount(last) \in DOMAIN accounts
  /\ \A k \in DOMAIN accounts[RemovedAccount(last)].slots :
       accounts[RemovedAccount(last)].slots[k] = Null

\* C12: a confirmation of Remove Account on an account with an occupied slot
\* is refused: the account stays, with its slots, and the snapshot is unchanged.
C12_RemoveAccountRefusedWithOccupant ==
  [][(/\ last'.h = "remove_account_confirm"
      /\ RemovedAccount(last') \in DOMAIN accounts
      /\ \E k \in DOMAIN accounts[RemovedAccount(last')].slots :
           accounts[RemovedAccount(last')].slots[k] # Null)
       => last'.r # "removed" /\ data' = data]_vars

\* a Remove Account confirmation was just refused on an account with an
\* occupied slot
C12_RefusedWithOccupant ==
  /\ last.h = "remove_account_confirm"
  /\ last.r = "active_subs"
  /\ RemovedAccount(last) \in DOMAIN accounts
  /\ \E k \in DOMAIN accounts[RemovedAccount(last)].slots :
       accounts[RemovedAccount(last)].slots[k] # Null

\* the states of each flow, in the order the flow asks for its inputs
FlowOrders ==
  [add_person_conv |-> {<<"CHOOSE_PERSON_TO_ADD">>},
   remove_person_conv |-> {<<"CHOOSE_PERSON_TO_REMOVE">>},
   add_account_conv |-> {<<"GET_ACCOUNT_DETAILS", "GET_ACCOUNT_SERVICE">>},
   remove_account_conv |-> {<<"CHOOSE_ACCOUNT_TO_REMOVE">>},
   add_sub_conv |-> {<<"SUB_CHOOSE_PERSON", "SUB_CHOOSE_SERVICE", "SUB_CHOOSE_ACCOUNT",
                       "SUB_CHOOSE_SLOT", "SUB_CHOOSE_DURATION">>},
   set_price_conv |-> {<<"PRICE_MAIN_MENU", "PRICE_GET_SERVICE_NAME", "PRICE_GET_EMOJI",
                         "PRICE_GET_DURATION_DAYS", "PRICE_GET_PRICE_AMOUNT">>,
                       <<"PRICE_MAIN_MENU", "PRICE_REMOVE_SELECT_SERVICE",
                         "PRICE_REMOVE_SELECT_DURATION">>},
   remove_sub_conv |-> {<<"REMSUB_CHOOSE_PERSON", "REMSUB_CHOOSE_SUBSCRIPTION">>}]

\* t is the state after s in an order of flow c, Idle standing before the first
NextInOrder(c, s, t) ==
  \E o \in FlowOrders[c] : \E i \in 1..Len(o) :
    t = o[i] /\ s = (IF i = 1 THEN Idle ELSE o[i - 1])

\* the handlers that commit a flow, each with the last state of its flow, the
\* state that asks for the last input of the commit; add_account_get_details
\* commits the Add Account flow on the branch that finds no service
CommitState ==
  [add_person_receive |-> "CHOOSE_PERSON_TO_ADD",
   remove_person_confirm |-> "CHOOSE_PERSON_TO_REMOVE",
   add_account_get_details |-> "GET_ACCOUNT_SERVICE",
   add_account_set_service |-> "GET_ACCOUNT_SERVICE",
   remove_account_confirm |-> "CHOOSE_ACCOUNT_TO_REMOVE",
   add_sub_duration_chosen |-> "SUB_CHOOSE_DURATION",
   price_get_amount_receive |-> "PRICE_GET_PRICE_AMOUNT",
   price_remove_select_duration_handler |-> "PRICE_REMOVE_SELECT_DURATION",
   remove_sub_confirm_and_delete |-> "REMSUB_CHOOSE_SUBSCRIPTION"]

\* handler h commits its flow on the branch that answers r
Commits(h, r) ==
  h \in DOMAIN CommitState /\ (h = "add_account_get_details" => r = "added_no_service")

\* C13: a flow changes state only to the next state of its order or to Idle,
\* and the price conversation, whose menu opens the two price flows, also
\* back to that menu; and a handler commits its flow only in the flow's last
\* state, reached through every state before it, in order.
C13_StatesInOrder ==
  [][/\ \A u \in Users : \A c \in ConvSet :
          conv'[u][c] # conv[u][c]
            => \/ NextInOrder(c, conv[u][c], conv'[u][c])
               \/ conv'[u][c] = Idle
               \/ c = "set_price_conv" /\ conv'[u][c] = "PRICE_MAIN_MENU"
     /\ Commits(last'.h, last'.r)
          => \E c \in ConvSet : conv[last'.u][c] = CommitState[last'.h]]_vars

\* C14: only the step that commits a flow writes the snapshot: every other
\* step of every flow leaves it as it is.
C14_WritesOnlyAtCommit ==
  [][data' # data => last'.h \in DOMAIN CommitState]_vars

\* C15: /cancel is accepted whenever the user has a flow pending; it leaves no
\* flow of the user pending, none of the collected keys in user_data, and the
\* snapshot as it is.
C15_CancelEndsSession ==
  [][/\ \A u \in Users :
          OpenCount(u) > 0 => \A ev \in Cmds["cancel"] : Dispatch(u, ev).h = "cancel"
     /\ last'.h = "cancel"
          => /\ \A c \in ConvSet : conv'[last'.u][c] = Idle
             /\ DOMAIN user_data'[last'.u] \cap keys_to_clear = {}
             /\ data' = data]_vars

\* C16: when a flow of a user ends, none of the keys the flows collect is
\* left in the user's user_data.
C16_TerminalClearsInput ==
  [][\A u \in Users : \A c \in ConvSet :
       (conv[u][c] # Idle /\ conv'[u][c] = Idle)
         => DOMAIN user_data'[u] \cap keys_to_clear = {}]_vars

\* the handlers registered for state s of conversation c
StateHandlers(c, s) ==
  LET hs == ConvTable[c].states[s] IN {hs[i].h : i \in 1..Len(hs)}

\* C17: while a conversation of a user waits in a state, an update of that
\* user which none of the state's handlers accepts and which is neither
\* /cancel nor /start (the command that resets the session) is ignored: the
\* conversation stays in its state, the user's accumulated input is unchanged
\* and the snapshot is unchanged.
C17_UnexpectedEventIgnored ==
  [][\A u \in Users : \A c \in ConvSet :
       (/\ conv[u][c] # Idle
        /\ last'.u = u
        /\ last'.h \notin StateHandlers(c, conv[u][c]) \cup {"cancel", "start"})
         => /\ conv'[u][c] = conv[u][c]
            /\ user_data'[u] = user_data[u]
            /\ data' = data]_vars

\* the handlers of conversation c: its entry points and its states' handlers
ConvHandlers(c) ==
  {ConvTable[c].entry_points[i].h : i \in 1..Len(ConvTable[c].entry_points)}
  \cup UNION {StateHandlers(c, st) : st \in DOMAIN ConvTable[c].states}

\* the branches a handler takes when the collection the next state needs is
\* empty: no people, no accounts, no services, no durations, no free slots
EmptyBranches ==
  {<<"add_sub_start_cb", "empty">>, <<"add_sub_person_chosen", "empty">>,
   <<"add_sub_service_chosen", "empty">>, <<"add_sub_account_chosen", "no_slots">>,
   <<"add_sub_account_chosen", "no_free_slots">>, <<"add_sub_slot_chosen", "empty">>,
   <<"remove_person_start_cb", "empty">>, <<"remove_account_start_cb", "empty">>,
   <<"remove_sub_start_command", "empty">>,
   <<"add_account_get_details", "added_no_service">>,
   <<"price_main_menu_handler", "remove_empty">>,
   <<"price_remove_select_service_handler", "empty">>}

\* C18: a handler that finds the collection of the next state empty ends its
\* conversation at once, puts no menu on screen and leaves the snapshot as it
\* is.
C18_EmptyCollectionAborts ==
  [][(\E b \in EmptyBranches : b = <<last'.h, last'.r>>)
       => /\ \A c \in ConvSet : last'.h \in ConvHandlers(c) => conv'[last'.u][c] = Idle
          /\ ScreenOf(menu'[last'.u]) \subseteq ScreenOf(menu[last'.u])
          /\ data' = data]_vars

\* the branches in which a handler reports a business error: a value that is
\* not valid, a name that exists already, a name that is not found, an
\* account that still has subscriptions
ErrorBranches ==
  {<<"add_person_receive", "exists">>, <<"add_account_get_details", "exists">>,
   <<"add_sub_account_chosen", "vanished">>, <<"add_sub_duration_chosen", "invalid">>,
   <<"add_sub_duration_chosen", "slot_not_found">>,
   <<"price_get_duration_days_receive", "invalid">>,
   <<"price_get_amount_receive", "invalid">>,
   <<"price_remove_select_duration_handler", "not_found">>,
   <<"remove_person_confirm", "not_found">>,
   <<"remove_account_confirm", "not_found">>, <<"remove_account_confirm", "active_subs">>,
   <<"remove_sub_person_selected", "not_found">>,
   <<"remove_sub_confirm_and_delete", "invalid">>,
   <<"remove_sub_confirm_and_delete", "not_found">>}

\* C19: a handler that reports a business error ends its conversation and
\* writes nothing to the snapshot.
C19_ErrorEndsFlow ==
  [][(\E b \in ErrorBranches : b = <<last'.h, last'.r>>)
       => /\ \A c \in ConvSet : last'.h \in ConvHandlers(c) => conv'[last'.u][c] = Idle
          /\ data' = data]_vars

\* C20: a user has at most one conversation pending at any time: an entry
\* point pressed or typed while a conversation is pending opens no second one.
C20_OneFlowPerUser == \A u \in Users : OpenCount(u) <= 1

\* the step is a run of the sweep
Swept == last'.h = "cleanup_expired_subs" /\ last'.at = now'

\* the subscription's end date reads as a date and the clock is at least
\* ExpiryDays + 1 whole days past it
Overdue(sub, t) ==
  sub.end_date >= 0 /\ t >= (sub.end_date + ExpiryDays + 1) * TicksPerDay

\* person p of snapshot d has an overdue subscription on slot k of account a
OverdueOn(d, p, a, k, t) ==
  /\ p \in DOMAIN d.people
  /\ \E i \in 1..Len(d.people[p].subscriptions) :
       LET sub == d.people[p].subscriptions[i] IN
       sub.account = a /\ sub.slot = k /\ Overdue(sub, t)

\* C21: the sweep drops exactly the subscriptions whose end date is more
\* than 60 whole days before today and keeps the others in order; it empties
\* exactly the slots whose occupant has a dropped subscription on that
\* account and slot, and changes no other slot or account.
C21_SweepDropsOverdue ==
  [][Swept =>
       /\ \A p \in DOMAIN people :
            LET rest == SelectSeq(people[p].subscriptions, LAMBDA sub : ~Overdue(sub, now)) IN
            IF p \in DOMAIN data'.people
            THEN data'.people[p].subscriptions = rest
            ELSE rest = << >>
       /\ DOMAIN data'.accounts = DOMAIN accounts
       /\ \A a \in DOMAIN accounts :
            /\ data'.accounts[a].service = accounts[a].service
            /\ DOMAIN data'.accounts[a].slots = DOMAIN accounts[a].slots
            /\ \A k \in DOMAIN accounts[a].slots :
                 data'.accounts[a].slots[k] =
                   IF OverdueOn(data, accounts[a].slots[k], a, k, now)
                   THEN Null ELSE accounts[a].slots[k]]_vars

\* the sweep ran on ann's two subscriptions: the one that ended 61 days ago
\* is gone and its slot is empty, the one that ended 60 days ago is kept
C21_DroppedAt61KeptAt60 ==
  /\ last.h = "cleanup_expired_subs"
  /\ LET day == StrfDate(last.at)
         was == last.before.people["ann"].subscriptions IN
     /\ Len(was) = 2
     /\ was[1].end_date = day - ExpiryDays - 1
     /\ was[1].account = "acc1"
     /\ last.before.accounts["acc1"].slots[was[1].slot] = "ann"
     /\ was[2].end_date = day - ExpiryDays
     /\ was[2].slot # was[1].slot
     /\ "ann" \in DOMAIN people
     /\ people["ann"].subscriptions = <<was[2]>>
     /\ accounts["acc1"].slots[was[1].slot] = Null

\* person p of snapshot d has no subscription left once the overdue ones are
\* dropped, and was last active more than InactiveDays whole days before t
Lapsed(d, p, t) ==
  /\ \A i \in 1..Len(d.people[p].subscriptions) : Overdue(d.people[p].subscriptions[i], t)
  /\ d.people[p].last_active >= 0
  /\ t >= (d.people[p].last_active + InactiveDays + 1) * TicksPerDay

\* C22: the sweep deletes exactly the people who, once the overdue
\* subscriptions are dropped, have none left and were last active more than
\* 10 whole days before today; it keeps the last_active of the others.
C22_SweepDeletesLapsed ==
  [][Swept =>
       /\ DOMAIN data'.people = {p \in DOMAIN people : ~Lapsed(data, p, now)}
       /\ \A p \in DOMAIN data'.people :
            data'.people[p].last_active = people[p].last_active]_vars

\* the sweep ran: ann, last active 11 days ago, lost her only subscription in
\* this run and is gone; bob, without subscriptions and with a last_active
\* that does not read as a date, is still there
C22_DeletedWithPrunedSubs ==
  /\ last.h = "cleanup_expired_subs"
  /\ Len(last.before.people["ann"].subscriptions) = 1
  /\ last.before.people["ann"].last_active = StrfDate(last.at) - InactiveDays - 1
  /\ "ann" \notin DOMAIN people
  /\ last.before.people["bob"].subscriptions = << >>
  /\ "bob" \in DOMAIN people

\* C23: a run of the sweep that follows a run of the sweep on the same day,
\* with nothing written in between, leaves the snapshot as the first run left
\* it and writes nothing.
C23_SweepIdempotent ==
  [][(/\ last.h = "cleanup_expired_subs"
      /\ StrfDate(last.at) = StrfDate(now)
      /\ Swept)
       => data' = data /\ last'.r = "unchanged"]_vars

\* the sweep has run twice on one day, the second time later in the day: the
\* first run deleted bob, the second run found nothing to do
C23_SecondRunQuiet ==
  /\ last.h = "cleanup_expired_subs"
  /\ last.r = "unchanged"
  /\ last.at > StrpDate(StrfDate(last.at))
  /\ "bob" \notin DOMAIN last.before.people
  /\ data = last.before

\* the subscription's end date does not read as a date
Unparsable(sub) == sub.end_date < 0

\* C24: the sweep keeps every subscription whose end date does not parse,
\* in its person's list and in order, and leaves the slot it names with its
\* occupant; in the same run every overdue subscription of the snapshot is
\* dropped and every lapsed person is deleted.
C24_UnparsableUntouched ==
  [][Swept =>
       /\ \A p \in DOMAIN people :
            \A i \in 1..Len(people[p].subscriptions) :
              LET sub == people[p].subscriptions[i] IN
              Unparsable(sub) =>
                /\ p \in DOMAIN data'.people
                /\ SelectSeq(data'.people[p].subscriptions, Unparsable)
                     = SelectSeq(people[p].subscriptions, Unparsable)
                /\ (/\ sub.account \in DOMAIN accounts
                    /\ sub.slot \in DOMAIN accounts[sub.account].slots
                    /\ accounts[sub.account].slots[sub.slot] = p)
                     => data'.accounts[sub.account].slots[sub.slot] = p
       /\ \A p \in DOMAIN data'.people :
            \A i \in 1..Len(data'.people[p].subscriptions) :
              ~Overdue(data'.people[p].subscriptions[i], now)
       /\ \A p \in DOMAIN people : Lapsed(data, p, now) => p \notin DOMAIN data'.people]_vars

\* C25: the account that add_account_set_service writes for service S has
\* service S and exactly the slot keys "1".."n", all empty, n being
\* default_slots[S] of the snapshot at that moment, and 0 without an entry.
C25_NewAccountDefaultSlots ==
  [][(last'.h = "add_account_set_service" /\ last'.r = "added") =>
       LET account_name == user_data[last'.u]["new_account_name"]
           S == last'.arg[1]
           n == IF S \in DOMAIN data.default_slots THEN data.default_slots[S] ELSE 0
       IN /\ account_name \in DOMAIN data'.accounts
          /\ data'.accounts[account_name].service = S
          /\ DOMAIN data'.accounts[account_name].slots = {StrOf(i) : i \in 1..n}
          /\ \A k \in DOMAIN data'.accounts[account_name].slots :
               data'.accounts[account_name].slots[k] = Null]_vars

\* an account was just added with the two default slots of its service,
\* both empty
C25_AddedWithTwoSlots ==
  /\ last.h = "add_account_set_service"
  /\ last.r = "added"
  /\ Get(data.default_slots, last.arg[1], 0) = 2
  /\ "acc1" \in DOMAIN accounts
  /\ accounts["acc1"].slots = ("1" :> Null) @@ ("2" :> Null)

\* the elements of a sequence
Elems(seq) == {seq[i] : i \in 1..Len(seq)}

\* the step is /addslot or /removeslot, as h says, for an account of the snapshot
SlotCommand(h) ==
  last'.h = h /\ Len(last'.arg) >= 2 /\ last'.arg[1] \in DOMAIN accounts

\* the step changes nothing but the slots of the account the command names
OnlySlotsOfNamed ==
  /\ data'.people = data.people
  /\ data'.services = data.services
  /\ data'.default_slots = data.default_slots
  /\ DOMAIN data'.accounts = DOMAIN accounts
  /\ \A a \in DOMAIN accounts :
       /\ data'.accounts[a].service = accounts[a].service
       /\ a # last'.arg[1] => data'.accounts[a] = accounts[a]

\* C26: /addslot on an account of the snapshot keeps every key the account
\* has with its occupant and reports the ones the command names as existing;
\* every alphanumeric key the account lacks is inserted empty, whatever
\* happens to the other keys of the command; no other key is inserted and
\* the other accounts and the people are unchanged.
C26_AddSlotPerKey ==
  [][SlotCommand("add_slot") =>
       LET old == accounts[last'.arg[1]].slots
           new == data'.accounts[last'.arg[1]].slots
           keys == Elems(Tail(last'.arg))
       IN /\ \A k \in DOMAIN old : k \in DOMAIN new /\ new[k] = old[k]
          /\ \A k \in keys \cap DOMAIN old : k \in Elems(last'.said.already_exist)
          /\ \A k \in keys \ DOMAIN old : k # "#" => k \in DOMAIN new /\ new[k] = Null
          /\ DOMAIN new \subseteq DOMAIN old \cup {k \in keys : k # "#"}
          /\ OnlySlotsOfNamed]_vars

\* /addslot acc1 1 2 has just run on an account whose slot 1 is held: slot 1
\* is reported and still held, slot 2 is new and empty
C26_AddedBesideConflict ==
  /\ last.h = "add_slot"
  /\ last.arg = <<"acc1", "1", "2">>
  /\ last.said.already_exist = <<"1">>
  /\ last.said.added = <<"2">>
  /\ accounts["acc1"].slots["1"] \in DOMAIN people
  /\ accounts["acc1"].slots["2"] = Null

\* C27: /removeslot on an account of the snapshot keeps every held slot with
\* its occupant and reports the held ones it names; it deletes the empty
\* slots it names, reports the keys the account lacks, and changes nothing
\* else.
C27_RemoveSlotKeepsHeld ==
  [][SlotCommand("remove_slot") =>
       LET old == accounts[last'.arg[1]].slots
           new == data'.accounts[last'.arg[1]].slots
           keys == Elems(Tail(last'.arg))
       IN /\ \A k \in DOMAIN old :
               old[k] # Null =>
                 /\ k \in DOMAIN new /\ new[k] = old[k]
                 /\ k \in keys => k \in Elems(last'.said.occupied)
          /\ \A k \in keys \cap DOMAIN old : old[k] = Null => k \notin DOMAIN new
          /\ \A k \in (DOMAIN old) \ keys : k \in DOMAIN new /\ new[k] = old[k]
          /\ \A k \in keys \ DOMAIN old : k \in Elems(last'.said.not_found)
          /\ DOMAIN new \subseteq DOMAIN old
          /\ OnlySlotsOfNamed]_vars

\* /removeslot acc1 1 2 has just run on an account whose slot 1 was held and
\* whose slot 2 was empty: slot 1 is still held, slot 2 is gone
C27_HeldKeptEmptyRemoved ==
  /\ last.h = "remove_slot"
  /\ last.arg = <<"acc1", "1", "2">>
  /\ last.said.occupied = <<"1">>
  /\ last.said.removed = <<"2">>
  /\ DOMAIN accounts["acc1"].slots = {"1"}
  /\ accounts["acc1"].slots["1"] \in DOMAIN people

\* the number a price text denotes is below zero
BelowZero(price_str) == price_str \in {"-1", "-0.001"}

\* C28: after every step the durations keys of every service are positive
\* integers and every price is at least zero; a duration text that is not a
\* positive integer and a price text below zero write nothing; an accepted
\* price is stored under its duration in place of the price stored before.
C28_PricesValid ==
  [][/\ \A s \in DOMAIN data'.services :
          \A k \in DOMAIN data'.services[s].durations :
            /\ IsDigit(k) /\ IntOf(k) > 0
            /\ data'.services[s].durations[k] >= 0
     /\ (/\ last'.h = "price_get_duration_days_receive"
         /\ last'.arg[1] \in {"0", "abc"})
          => data' = data
     /\ (last'.h = "price_get_amount_receive" /\ BelowZero(last'.arg[1]))
          => data' = data
     /\ (last'.h = "price_get_amount_receive" /\ last'.r = "price_set")
          => LET S == user_data[last'.u]["price_service_name"]
                 k == StrOf(user_data[last'.u]["price_duration_days"])
             IN /\ data'.services[S].durations[k] = CentsOf(last'.arg[1])
                /\ \A j \in DOMAIN DurationsOf(data, S) \ {k} :
                     data'.services[S].durations[j] = data.services[S].durations[j]]_vars

\* the subscriptions of snapshot d, as <<person, position>>
AllSubs(d) ==
  UNION {{p} \X (1..Len(d.people[p].subscriptions)) : p \in DOMAIN d.people}

\* the prices of the subscriptions `subs` of snapshot d, added up
RECURSIVE Total(_, _)
Total(d, subs) ==
  IF subs = {} THEN 0
  ELSE LET x == CHOOSE y \in subs : TRUE IN
       d.people[x[1]].subscriptions[x[2]].price + Total(d, subs \ {x})

\* C29: /income changes nothing, every subscription of the snapshot has a
\* price to contribute, and the total it reports is the sum of these prices,
\* each counted once.
C29_IncomeIsSumOfPrices ==
  [][last'.h = "calculate_income" =>
       /\ data' = data
       /\ \A x \in AllSubs(data) : data.people[x[1]].subscriptions[x[2]].price # NoPrice
       /\ last'.total = Total(data, AllSubs(data))]_vars

\* C30: the confirmation of Remove Subscription reports "not found" and
\* leaves the snapshot as it is when the person is not in the snapshot, has
\* no subscriptions, or the position pressed is not a position of the
\* person's list.
C30_RemoveSubNotFound ==
  [][(/\ last'.h = "remove_sub_confirm_and_delete"
      /\ IsIntText(last'.arg[1])
      /\ "remove_sub_person" \in DOMAIN user_data[last'.u]
      /\ LET p == user_data[last'.u]["remove_sub_person"] IN
         \/ p \notin DOMAIN people
         \/ IntOf(last'.arg[1]) + 1 \notin 1..Len(people[p].subscriptions))
       => last'.r = "not_found" /\ data' = data]_vars

\* the second subscription of a person was just pressed after the first one
\* was removed by somebody else: the person has one subscription, position 1
\* is past the end, and the answer is "not found"
C30_StalePositionRefused ==
  /\ last.h = "remove_sub_confirm_and_delete"
  /\ last.r = "not_found"
  /\ last.arg = <<"1">>
  /\ "ann" \in DOMAIN people
  /\ Len(people["ann"].subscriptions) = 1

\* C31: an update of user u handled by any handler leaves the conversation
\* states and the collected input of every other user as they are.
C31_SessionsIndependent ==
  [][last'.u \in Users =>
       \A v \in Users \ {last'.u} :
         conv'[v] = conv[v] /\ user_data'[v] = user_data[v]]_vars

\* u1 has just cancelled while u2 is in the middle of Add Subscription with
\* a person and a service collected
C31_CancelBesidePending ==
  /\ last.h = "cancel"
  /\ last.u = "u1"
  /\ conv["u2"]["add_sub_conv"] = "SUB_CHOOSE_ACCOUNT"
  /\ {"addsub_person", "addsub_service"} \subseteq DOMAIN user_data["u2"]

\* C32: right after a price was committed, the two buttons sent with the
\* confirmation are routed as registered for them: "Price Menu"
\* (set_prices_start_dummy_end) to set_prices_start_cb, which shows the price
\* menu, and "Main Menu" (main_menu_from_price_set_end) to
\* main_menu_generic_handler, which ends the conversation.
C32_WhatNextButtonsRouted ==
  \A u \in Users :
    (last.u = u /\ last.h = "price_get_amount_receive" /\ last.r = "price_set") =>
      /\ BagIn(WhatNextMenu, menu[u])
      /\ Dispatch(u, Btn("set_prices_start_dummy_end")).h = "set_prices_start_cb"
      /\ Dispatch(u, Btn("main_menu_from_price_set_end")).h = "main_menu_generic_handler"

\* C33: in every snapshot, every subscription of a person p names an account
\* that exists and a slot key of that account, and that slot is held by p.
C33_SubscriptionHoldsItsSlot ==
  \A x \in AllSubs(data) :
    LET sub == people[x[1]].subscriptions[x[2]] IN
    /\ <<sub.account, sub.slot>> \in AllSlots
    /\ accounts[sub.account].slots[sub.slot] = x[1]

\* C34: in every snapshot, the occupant of an occupied slot is a person who
\* has at least one subscription with that account and that slot.
C34_OccupantHasSubscription ==
  \A as \in AllSlots :
    LET p == accounts[as[1]].slots[as[2]] IN
    p # Null => p \in DOMAIN people /\ SubsOn(p, as[1], as[2]) # {}

\* the sweep has just dropped an overdue subscription and emptied the slot
\* its person held
C34_SweepFreedHeldSlot ==
  /\ last.h = "cleanup_expired_subs"
  /\ \E as \in AllSlots :
       LET p == last.before.accounts[as[1]].slots[as[2]] IN
       /\ p # Null
       /\ accounts[as[1]].slots[as[2]] = Null
       /\ p \in DOMAIN people
       /\ Len(people[p].subscriptions) < Len(last.before.people[p].subscriptions)

\* C35: the subscription deleted by a confirmation of Remove Subscription has
\* the service, account, slot and end date of the subscription that was shown
\* on the button the user pressed.
C35_RemovesTheShownSubscription ==
  [][(last'.h = "remove_sub_confirm_and_delete" /\ last'.r = "removed") =>
       \A b \in ScreenOf(menu[last'.u]) :
         (b.name = "remsub_confirm_" /\ b.arg = last'.arg) =>
           /\ last'.sub.service = b.shown.service
           /\ last'.sub.account = b.shown.account
           /\ last'.sub.slot = b.shown.slot
           /\ last'.sub.end_date = b.shown.end_date]_vars

\* C36: in every snapshot, the account of every subscription is the id of an
\* account of the snapshot.
C36_SubscriptionAccountExists ==
  \A x \in AllSubs(data) :
    people[x[1]].subscriptions[x[2]].account \in DOMAIN accounts

\* a finalization of Add Subscription was just refused because the account
\* chosen earlier in the conversation had been removed in the meantime
C36_CommitAfterAccountRemoved ==
  /\ last.h = "add_sub_duration_chosen"
  /\ last.r = "slot_not_found"
  /\ "acc1" \notin DOMAIN accounts

\* C37: in every snapshot, the service of every subscription is the service
\* of the account the subscription names.
C37_SubscriptionServiceIsAccountService ==
  \A x \in AllSubs(data) :
    LET sub == people[x[1]].subscriptions[x[2]] IN
    sub.account \in DOMAIN accounts => sub.service = accounts[sub.account].service

\* C38: Add Person with a name that is in the snapshot it loads answers
\* "already in our system" and leaves the snapshot as it is: the person keeps
\* its subscriptions and its last_active.
C38_AddExistingPersonChangesNothing ==
  [][(last'.h = "add_person_receive" /\ last'.arg[1] \in DOMAIN people) =>
       last'.r = "exists" /\ data' = data]_vars

\* the name of a person who has a subscription was just sent to Add Person
C38_ExistingWithSubscription ==
  /\ last.h = "add_person_receive"
  /\ last.r = "exists"
  /\ last.arg[1] \in DOMAIN people
  /\ people[last.arg[1]].subscriptions # << >>

\* the handlers of the selections of Add Subscription
AddSubSelections ==
  {"add_sub_person_chosen", "add_sub_service_chosen", "add_sub_account_chosen",
   "add_sub_slot_chosen", "add_sub_duration_chosen"}

\* C39: no state of a session is a dead end.  Whenever a user has a
\* conversation pending, /cancel is handed to cancel in one of the pending
\* conversations, and every run of cancel ends one pending conversation and
\* opens none, so as many /cancel as there are pending conversations bring the
\* session to Idle.  Every selection handled in Add Subscription ends the
\* conversation or moves it to the next of its five states, so the flow ends
\* after at most five selections.
C39_NoDeadEnd ==
  /\ [](\A u \in Users :
          OpenCount(u) > 0 =>
            \A ev \in Cmds["cancel"] :
              /\ Dispatch(u, ev).h = "cancel"
              /\ Dispatch(u, ev).c \in ConvSet
              /\ conv[u][Dispatch(u, ev).c] # Idle)
  /\ [][\A u \in Users :
          /\ (last'.u = u /\ last'.h = "cancel") =>
               Cardinality({c \in ConvSet : conv'[u][c] # Idle}) = OpenCount(u) - 1
          /\ (last'.u = u /\ last'.h \in AddSubSelections) =>
               \/ conv'[u]["add_sub_conv"] = Idle
               \/ NextInOrder("add_sub_conv", conv[u]["add_sub_conv"],
                              conv'[u]["add_sub_conv"])]_vars

\* /cancel was just sent with two conversations pending: one of them ended,
\* the other is still pending
C39_CancelledOneOfTwo ==
  /\ last.h = "cancel"
  /\ OpenCount(last.u) = 1

====
